---- MODULE Spec2Model ----
(***************************************************************************)
(* Model of news_collector.py: the keyword matching system (_parse_word,   *)
(* _word_matches, matches_word_groups, matches_keywords,                   *)
(* parse_keyword_config), the topic catalog (KEYWORD_GROUPS,               *)
(* _get_parsed_keyword_group, collect_by_topic) and the retry loop of      *)
(* PlatformCollector.fetch_data.                                           *)
(*                                                                         *)
(* A Python str is a sequence of one-character strings; a character        *)
(* outside ASCII is the string of its code point, as in "U+91D1".  A list  *)
(* is a sequence.  None is the value None below when it stands for an      *)
(* absent string; a list argument that is None is the empty sequence,      *)
(* because the code only ever tests such arguments with `if x:` /          *)
(* `if not x:`, which does not tell None from [].                          *)
(***************************************************************************)
EXTENDS Integers, Sequences, FiniteSets, TLC

VARIABLES
    title,            \* matches_word_groups: argument title
    word_groups,      \* matches_word_groups: argument word_groups
    filter_words,     \* matches_word_groups: argument filter_words
    global_filters,   \* matches_word_groups: argument global_filters
    result,           \* matches_word_groups: returned value
    group_idx,        \* matches_word_groups: position of the group loop at `return True` (0: not there)
    config_text,      \* parse_keyword_config: argument config_text
    blocks,           \* parse_keyword_config: local word_groups (the blocks of the text, line 304)
    block_idx,        \* parse_keyword_config: position of `for group in word_groups`
    current_section,  \* parse_keyword_config: local current_section
    processed_groups, \* parse_keyword_config: local processed_groups
    parsed_filter_words,   \* parse_keyword_config: local filter_words
    parsed_global_filters, \* parse_keyword_config: local global_filters
    pc,               \* position of the caller
    word_arg,         \* _parse_word: argument word
    token,            \* _parse_word: returned dict
    keywords,         \* matches_keywords: argument keywords
    topic,            \* collect_by_topic: argument topic
    parsed_keyword_groups, \* module global _PARSED_KEYWORD_GROUPS
    topic_result,     \* collect_by_topic: what the call came to
    topic_calls,      \* number of collect_by_topic calls made
    id_info,          \* fetch_data: argument id_info
    max_retries,      \* fetch_data: argument max_retries
    retries,          \* fetch_data: local retries
    attempts,         \* fetch_data: the outcomes of the requests made, in order
    sleeps,           \* fetch_data: number of time.sleep calls made
    response,         \* fetch_data: returned tuple
    platforms,        \* fetch_all: argument platforms
    fetch_args,       \* fetch_all: the other arguments
    crawl_idx,        \* crawl_websites: position of `for i, id_info in enumerate(ids_list)`
    raw_results,      \* crawl_websites: local results, fetch_all: raw_results
    id_to_name,       \* crawl_websites: local id_to_name
    failed_ids,       \* crawl_websites: local failed_ids
    collection        \* fetch_all: local result (a CollectionResult)

vars == <<title, word_groups, filter_words, global_filters, result, group_idx,
          config_text, blocks, block_idx, current_section, processed_groups,
          parsed_filter_words, parsed_global_filters, pc,
          word_arg, token, keywords, topic, parsed_keyword_groups, topic_result, topic_calls,
          id_info, max_retries, retries, attempts, sleeps, response,
          platforms, fetch_args, crawl_idx, raw_results, id_to_name, failed_ids, collection>>

matchVars == <<title, word_groups, filter_words, global_filters, result, group_idx>>
parseVars == <<config_text, blocks, block_idx, current_section, processed_groups,
               parsed_filter_words, parsed_global_filters>>
wordVars == <<word_arg, token>>
topicVars == <<topic, parsed_keyword_groups, topic_result, topic_calls>>
fetchVars == <<id_info, max_retries, retries, attempts, sleeps, response>>
collectVars == <<platforms, fetch_args, crawl_idx, raw_results, id_to_name, failed_ids,
                 collection>>
otherVars == <<wordVars, keywords, topicVars, fetchVars, collectVars>>

----------------------------------------------------------------------------
(* Bounds of the model *)

MaxTitleLen == 2
MaxGroups == 2
MaxBlocks == 3

----------------------------------------------------------------------------
(* Python str primitives *)

None == <<"<None>">>

Range(s) == {s[i] : i \in 1..Len(s)}

UpperChars == <<"A","B","C","D","E","F","G","H","I","J","K","L","M",
                "N","O","P","Q","R","S","T","U","V","W","X","Y","Z">>
LowerChars == <<"a","b","c","d","e","f","g","h","i","j","k","l","m",
                "n","o","p","q","r","s","t","u","v","w","x","y","z">>

LowerChar(c) ==
    IF \E i \in 1..26 : UpperChars[i] = c
    THEN LowerChars[CHOOSE i \in 1..26 : UpperChars[i] = c]
    ELSE c

UpperChar(c) ==
    IF \E i \in 1..26 : LowerChars[i] = c
    THEN UpperChars[CHOOSE i \in 1..26 : LowerChars[i] = c]
    ELSE c

\* str.lower()
Lower(s) == [i \in 1..Len(s) |-> LowerChar(s[i])]

\* str.upper()
Upper(s) == [i \in 1..Len(s) |-> UpperChar(s[i])]

Whitespace == {" ", "\t", "\n", "\r"}

\* str.strip()
Strip(s) ==
    LET keep == {i \in 1..Len(s) : s[i] \notin Whitespace}
    IN  IF keep = {} THEN <<>>
        ELSE LET lo == CHOOSE i \in keep : \A j \in keep : i <= j
                 hi == CHOOSE i \in keep : \A j \in keep : i >= j
             IN  SubSeq(s, lo, hi)

\* needle in hay
Contains(needle, hay) ==
    \E i \in 0..(Len(hay) - Len(needle)) : SubSeq(hay, i + 1, i + Len(needle)) = needle

\* s.startswith(p)
StartsWith(s, p) == Len(s) >= Len(p) /\ SubSeq(s, 1, Len(p)) = p

\* s.endswith(p)
EndsWith(s, p) == Len(s) >= Len(p) /\ SubSeq(s, Len(s) - Len(p) + 1, Len(s)) = p

\* s.split(sep), sep non-empty: left to right, non-overlapping
RECURSIVE Split(_, _)
Split(s, sep) ==
    LET hits == {i \in 1..(Len(s) - Len(sep) + 1) : SubSeq(s, i, i + Len(sep) - 1) = sep}
    IN  IF hits = {} THEN <<s>>
        ELSE LET i == CHOOSE h \in hits : \A k \in hits : h <= k
             IN  <<SubSeq(s, 1, i - 1)>> \o Split(SubSeq(s, i + Len(sep), Len(s)), sep)

\* sep.join(parts)
RECURSIVE Join(_, _)
Join(sep, parts) ==
    IF parts = <<>> THEN <<>>
    ELSE IF Len(parts) = 1 THEN parts[1]
    ELSE parts[1] \o sep \o Join(sep, Tail(parts))

\* all sequences over S of length at most n
SeqsUpTo(S, n) == UNION {[1..k -> S] : k \in 0..n}

----------------------------------------------------------------------------
(* Regular expressions: the dialect of the model's inputs is literal       *)
(* characters, '.', top-level '|', and parentheses that only ever occur    *)
(* unbalanced (the pattern that re.compile rejects).                       *)

\* re.compile(pattern_str, re.IGNORECASE) raises re.error
RECURSIVE ParenDepthOk(_, _, _)
ParenDepthOk(p, i, depth) ==
    IF i > Len(p) THEN depth = 0
    ELSE IF p[i] = "(" THEN ParenDepthOk(p, i + 1, depth + 1)
    ELSE IF p[i] = ")" THEN depth > 0 /\ ParenDepthOk(p, i + 1, depth - 1)
    ELSE ParenDepthOk(p, i + 1, depth)

RegexCompiles(p) == ParenDepthOk(p, 1, 0)

AtomMatches(a, c) == IF a = "." THEN c # "\n" ELSE LowerChar(a) = LowerChar(c)

AltMatchesAt(alt, text, i) ==
    /\ i + Len(alt) - 1 <= Len(text)
    /\ \A k \in 1..Len(alt) : AtomMatches(alt[k], text[i + k - 1])

\* pattern.search(text) is not None, pattern compiled with re.IGNORECASE
RegexSearch(p, text) ==
    \E alt \in Range(Split(p, <<"|">>)) :
        \E i \in 1..(Len(text) + 1) : AltMatchesAt(alt, text, i)

----------------------------------------------------------------------------
(* _parse_word *)

\* the dict _parse_word returns; kind "dict" tells it from a plain str item
Token(word, is_regex, pattern, display_name) ==
    [kind |-> "dict", word |-> word, is_regex |-> is_regex,
     pattern |-> pattern, display_name |-> display_name]

\* a plain str used where a word config is expected
StrItem(s) ==
    [kind |-> "str", word |-> s, is_regex |-> FALSE, pattern |-> None, display_name |-> None]

\* faulty variant: the word is split at its last '=>'
ArrowParts_LastArrow(word) ==
    LET hits == {i \in 1..(Len(word) - 1) : word[i] = "=" /\ word[i + 1] = ">"}
        i == CHOOSE h \in hits : \A k \in hits : h >= k
    IN  <<SubSeq(word, 1, i - 1), SubSeq(word, i + 2, Len(word))>>

\* re.split(r'\s*=>\s*', word, 1): the parts around the first '=>'
ArrowParts(word) ==
    LET hits == {i \in 1..(Len(word) - 1) : word[i] = "=" /\ word[i + 1] = ">"}
        i == CHOOSE h \in hits : \A k \in hits : h <= k
    IN  <<SubSeq(word, 1, i - 1), SubSeq(word, i + 2, Len(word))>>

\* re.match(r'^/(.+)/[a-z]*$', word_config): the index of the closing slash, 0 when no match
RegexClose(word_config) ==
    LET slashes == {i \in 3..Len(word_config) : word_config[i] = "/"}
        last == CHOOSE i \in slashes : \A j \in slashes : i >= j
    IN  IF Len(word_config) >= 3 /\ word_config[1] = "/" /\ slashes # {}
           /\ \A k \in (last + 1)..Len(word_config) : word_config[k] \in Range(LowerChars)
        THEN last ELSE 0

\* faulty variant: a regex that does not compile is kept without its slashes
_parse_word_InnerTextOnFailure(word) ==
    LET hasArrow == Contains(<<"=", ">">>, word)
        parts == ArrowParts(word)
        word_config == IF hasArrow THEN Strip(parts[1]) ELSE Strip(word)
        display_name == IF hasArrow /\ Strip(parts[2]) # <<>> THEN Strip(parts[2]) ELSE None
        close == RegexClose(word_config)
        pattern_str == SubSeq(word_config, 2, close - 1)
    IN  IF close # 0
        THEN Token(pattern_str, RegexCompiles(pattern_str),
                   IF RegexCompiles(pattern_str) THEN pattern_str ELSE None, display_name)
        ELSE Token(word_config, FALSE, None, display_name)

_parse_word(word) ==
    LET hasArrow == Contains(<<"=", ">">>, word)
        parts == ArrowParts(word)
        word_config == IF hasArrow THEN Strip(parts[1]) ELSE Strip(word)
        display_name == IF hasArrow /\ Strip(parts[2]) # <<>> THEN Strip(parts[2]) ELSE None
        close == RegexClose(word_config)
        pattern_str == SubSeq(word_config, 2, close - 1)
    IN  IF close # 0 /\ RegexCompiles(pattern_str)
        THEN Token(pattern_str, TRUE, pattern_str, display_name)
        ELSE Token(word_config, FALSE, None, display_name)

----------------------------------------------------------------------------
(* _word_matches *)

_word_matches(word_config, title_lower) ==
    IF word_config.kind = "str"
    THEN Contains(Lower(word_config.word), title_lower)
    ELSE IF word_config.is_regex /\ word_config.pattern # None
         THEN RegexSearch(word_config.pattern, title_lower)
         ELSE Contains(Lower(word_config.word), title_lower)

----------------------------------------------------------------------------
(* matches_word_groups *)

\* a title argument: a str, None, or another object with its str() text
StrTitle(s) == [kind |-> "str", text |-> s]
NoneTitle == [kind |-> "none", text |-> <<>>]
OtherTitle(repr) == [kind |-> "other", text |-> repr]

\* lines 238-239
CoerceTitle(t) == IF t.kind = "none" THEN <<>> ELSE t.text

\* faulty variant: the global word is compared without lower()
GlobalFilterHit_CaseSensitive(title_lower, gfs) ==
    gfs # <<>> /\ \E k \in 1..Len(gfs) : Contains(gfs[k], title_lower)

\* lines 246-248
GlobalFilterHit(title_lower, gfs) ==
    gfs # <<>> /\ \E k \in 1..Len(gfs) : Contains(Lower(gfs[k]), title_lower)

\* lines 255-258
FilterWordHit(title_lower, fws) ==
    fws # <<>> /\ \E k \in 1..Len(fws) : _word_matches(fws[k], title_lower)

\* faulty variant: the normal words are not checked
GroupPasses_RequiredOnly(group, title_lower) ==
    LET required_words == group.required
    IN  required_words # <<>> =>
            \A k \in 1..Len(required_words) : _word_matches(required_words[k], title_lower)

\* lines 262-281: the loop body reaches `return True` for this group
GroupPasses(group, title_lower) ==
    LET required_words == group.required
        normal_words == group.normal
    IN  /\ (required_words # <<>> =>
               \A k \in 1..Len(required_words) : _word_matches(required_words[k], title_lower))
        /\ (normal_words # <<>> =>
               \E k \in 1..Len(normal_words) : _word_matches(normal_words[k], title_lower))

\* faulty variant: a group that fails ends the loop (`return False` in place of `continue`)
GroupLoop_StopAtFirstFailure(groups, i, title_lower) ==
    IF i > Len(groups) THEN 0
    ELSE IF GroupPasses(groups[i], title_lower) THEN i
    ELSE 0

\* lines 261-283: the loop over the groups in list order from position i;
\* the position of the first `return True`, 0 when the loop runs out
RECURSIVE GroupLoop(_, _, _)
GroupLoop(groups, i, title_lower) ==
    IF i > Len(groups) THEN 0
    ELSE IF GroupPasses(groups[i], title_lower) THEN i
    ELSE GroupLoop(groups, i + 1, title_lower)

\* faulty variant: the filter words are checked before the empty-groups shortcut
MatchOutcome_FilterBeforeEmpty(t, groups, fws, gfs) ==
    LET s == CoerceTitle(t)
        title_lower == Lower(s)
        at == GroupLoop(groups, 1, title_lower)
    IN  IF Strip(s) = <<>> THEN [ret |-> FALSE, by |-> "blank", idx |-> 0]
        ELSE IF GlobalFilterHit(title_lower, gfs) THEN [ret |-> FALSE, by |-> "global", idx |-> 0]
        ELSE IF FilterWordHit(title_lower, fws) THEN [ret |-> FALSE, by |-> "filter", idx |-> 0]
        ELSE IF groups = <<>> THEN [ret |-> TRUE, by |-> "nogroups", idx |-> 0]
        ELSE IF at # 0 THEN [ret |-> TRUE, by |-> "group", idx |-> at]
        ELSE [ret |-> FALSE, by |-> "none", idx |-> 0]

\* faulty variant: the groups are checked before the filter words
MatchOutcome_GroupsBeforeFilter(t, groups, fws, gfs) ==
    LET s == CoerceTitle(t)
        title_lower == Lower(s)
        at == GroupLoop(groups, 1, title_lower)
    IN  IF Strip(s) = <<>> THEN [ret |-> FALSE, by |-> "blank", idx |-> 0]
        ELSE IF GlobalFilterHit(title_lower, gfs) THEN [ret |-> FALSE, by |-> "global", idx |-> 0]
        ELSE IF groups = <<>> THEN [ret |-> TRUE, by |-> "nogroups", idx |-> 0]
        ELSE IF at # 0 THEN [ret |-> TRUE, by |-> "group", idx |-> at]
        ELSE IF FilterWordHit(title_lower, fws) THEN [ret |-> FALSE, by |-> "filter", idx |-> 0]
        ELSE [ret |-> FALSE, by |-> "none", idx |-> 0]

\* lines 237-283: the returned value, the check that returned, and the loop position
MatchOutcome(t, groups, fws, gfs) ==
    LET s == CoerceTitle(t)
        title_lower == Lower(s)
        at == GroupLoop(groups, 1, title_lower)
    IN  IF Strip(s) = <<>> THEN [ret |-> FALSE, by |-> "blank", idx |-> 0]
        ELSE IF GlobalFilterHit(title_lower, gfs) THEN [ret |-> FALSE, by |-> "global", idx |-> 0]
        ELSE IF groups = <<>> THEN [ret |-> TRUE, by |-> "nogroups", idx |-> 0]
        ELSE IF FilterWordHit(title_lower, fws) THEN [ret |-> FALSE, by |-> "filter", idx |-> 0]
        ELSE IF at # 0 THEN [ret |-> TRUE, by |-> "group", idx |-> at]
        ELSE [ret |-> FALSE, by |-> "none", idx |-> 0]

matches_word_groups(t, groups, fws, gfs) == MatchOutcome(t, groups, fws, gfs).ret

----------------------------------------------------------------------------
(* The values of the variables of the functions a specification does not call *)

IdleMatch ==
    /\ title = StrTitle(<<>>)
    /\ word_groups = <<>>
    /\ filter_words = <<>>
    /\ global_filters = <<>>
    /\ result = FALSE
    /\ group_idx = 0

IdleParse ==
    /\ config_text = <<>>
    /\ blocks = <<>>
    /\ block_idx = 0
    /\ current_section = "WORD_GROUPS"
    /\ processed_groups = <<>>
    /\ parsed_filter_words = <<>>
    /\ parsed_global_filters = <<>>

IdleWord == word_arg = <<>> /\ token = None

IdleKeywords == keywords = <<>>

IdleTopic ==
    /\ topic = <<>>
    /\ parsed_keyword_groups = <<>>
    /\ topic_result = None
    /\ topic_calls = 0

IdleFetch ==
    /\ id_info = None
    /\ max_retries = 0
    /\ retries = 0
    /\ attempts = <<>>
    /\ sleeps = 0
    /\ response = None

IdleCollect ==
    /\ platforms = <<>>
    /\ fetch_args = None
    /\ crawl_idx = 0
    /\ raw_results = <<>>
    /\ id_to_name = <<>>
    /\ failed_ids = <<>>
    /\ collection = None

IdleOthers == IdleWord /\ IdleKeywords /\ IdleTopic /\ IdleFetch /\ IdleCollect

----------------------------------------------------------------------------
(* Inputs of the matcher *)

TitleChars == {"a", "B", " "}

Titles ==
    {StrTitle(s) : s \in SeqsUpTo(TitleChars, MaxTitleLen)}
        \cup {NoneTitle, OtherTitle(<<"b">>)}

TokA == Token(<<"A">>, FALSE, None, None)
TokB == Token(<<"b">>, FALSE, None, None)
TokRe == Token(<<"a", ".", "|", "b", "b">>, TRUE, <<"a", ".", "|", "b", "b">>, None)

Group(required, normal) ==
    [required |-> required, normal |-> normal, group_key |-> <<>>,
     display_name |-> None, max_count |-> 0]

GroupPool ==
    { Group(<<>>, <<>>),
      Group(<<TokA>>, <<>>),
      Group(<<TokA, StrItem(<<"B">>)>>, <<>>),
      Group(<<>>, <<TokA, TokB>>),
      Group(<<TokB>>, <<TokA>>),
      Group(<<>>, <<TokRe>>) }

FilterChoices == { <<>>, <<TokB>>, <<StrItem(<<"A", " ">>), TokRe>> }

GlobalChoices == { <<>>, << <<"B">> >>, << <<"a", " ">>, <<"b", "b">> >>, << <<>> >> }

----------------------------------------------------------------------------
(* The matcher called on every input of the pools *)

InitMatch ==
    /\ title \in Titles
    /\ word_groups \in SeqsUpTo(GroupPool, MaxGroups)
    /\ filter_words \in FilterChoices
    /\ global_filters \in GlobalChoices
    /\ result = FALSE
    /\ group_idx = 0
    /\ config_text = <<>>
    /\ blocks = <<>>
    /\ block_idx = 0
    /\ current_section = "WORD_GROUPS"
    /\ processed_groups = <<>>
    /\ parsed_filter_words = <<>>
    /\ parsed_global_filters = <<>>
    /\ pc = "call"
    /\ IdleOthers

CallMatches ==
    /\ pc = "call"
    /\ LET out == MatchOutcome(title, word_groups, filter_words, global_filters)
       IN  /\ result' = matches_word_groups(title, word_groups, filter_words, global_filters)
           /\ group_idx' = out.idx
    /\ pc' = "returned"
    /\ UNCHANGED <<title, word_groups, filter_words, global_filters>>
    /\ UNCHANGED parseVars
    /\ UNCHANGED otherVars

NextMatch == CallMatches

SpecMatch == InitMatch /\ [][NextMatch]_vars

----------------------------------------------------------------------------
(* parse_keyword_config *)

NL == <<"\n">>
SecGlobalFilter == <<"G","L","O","B","A","L","_","F","I","L","T","E","R">>
SecWordGroups == <<"W","O","R","D","_","G","R","O","U","P","S">>

\* line 304: the stripped, non-empty blocks of the text
TextBlocks(text) ==
    LET raw == Split(text, NL \o NL)
        stripped == [k \in 1..Len(raw) |-> Strip(raw[k])]
    IN  SelectSeq(stripped, LAMBDA g : g # <<>>)

\* lines 313-314: the stripped lines of a block, without blank and comment lines
BlockLines(group) ==
    LET raw == Split(group, NL)
        stripped == [k \in 1..Len(raw) |-> Strip(raw[k])]
    IN  SelectSeq(stripped, LAMBDA l : l # <<>> /\ ~StartsWith(l, <<"#">>))

IsBracketed(line) == StartsWith(line, <<"[">>) /\ EndsWith(line, <<"]">>)

\* lines[0][1:-1]
Inner(line) == SubSeq(line, 2, Len(line) - 1)

\* lines 320-322: the section the first line names, "" when it names none
HeaderSection(lines) ==
    IF lines # <<>> /\ IsBracketed(lines[1])
    THEN IF Upper(Inner(lines[1])) = SecGlobalFilter THEN "GLOBAL_FILTER"
         ELSE IF Upper(Inner(lines[1])) = SecWordGroups THEN "WORD_GROUPS"
         ELSE ""
    ELSE ""

\* faulty variant: the section starts again from WORD_GROUPS in every block
SectionAfter_ResetPerBlock(cur, lines) ==
    IF HeaderSection(lines) # "" THEN HeaderSection(lines) ELSE "WORD_GROUPS"

\* lines 320-323: current_section after the header check
SectionAfter(cur, lines) ==
    IF HeaderSection(lines) # "" THEN HeaderSection(lines) ELSE cur

\* line 324: the header line is dropped
LinesAfterHeader(lines) ==
    IF HeaderSection(lines) # "" THEN Tail(lines) ELSE lines

\* faulty variant: '@' lines are not discarded
GlobalFilterLines_KeepCount(lines) ==
    SelectSeq(lines, LAMBDA l : ~(StartsWith(l, <<"!">>) \/ StartsWith(l, <<"+">>)))

\* lines 328-330: what a block adds to global_filters in section GLOBAL_FILTER
GlobalFilterLines(lines) ==
    SelectSeq(lines, LAMBDA l :
        ~(StartsWith(l, <<"!">>) \/ StartsWith(l, <<"+">>) \/ StartsWith(l, <<"@">>)))

\* lines 338-341: the block has a group alias line
HasAlias(words) ==
    /\ words # <<>>
    /\ IsBracketed(words[1])
    /\ Upper(Strip(Inner(words[1]))) \notin {SecGlobalFilter, SecWordGroups}

\* lines 335-341
GroupAlias(words) == IF HasAlias(words) THEN Strip(Inner(words[1])) ELSE None

\* line 342
WordsAfterAlias(words) == IF HasAlias(words) THEN Tail(words) ELSE words

Digits == <<"0","1","2","3","4","5","6","7","8","9">>

DigitValue(c) == (CHOOSE d \in 1..10 : Digits[d] = c) - 1

RECURSIVE DigitsValue(_)
DigitsValue(ds) ==
    IF ds = <<>> THEN 0 ELSE 10 * DigitsValue(SubSeq(ds, 1, Len(ds) - 1)) + DigitValue(ds[Len(ds)])

\* int(s): optional sign and decimal digits around which whitespace is ignored;
\* ok is FALSE where int() raises ValueError
ParseInt(s) ==
    LET t == Strip(s)
        signed == t # <<>> /\ t[1] \in {"+", "-"}
        ds == IF signed THEN Tail(t) ELSE t
    IN  IF ds # <<>> /\ \A k \in 1..Len(ds) : ds[k] \in Range(Digits)
        THEN [ok |-> TRUE,
              val |-> IF signed /\ t[1] = "-" THEN 0 - DigitsValue(ds) ELSE DigitsValue(ds)]
        ELSE [ok |-> FALSE, val |-> 0]

\* faulty variant: any integer is taken as the count
CountAfter_AnyInteger(max_count, word) ==
    LET n == ParseInt(Tail(word))
    IN  IF n.ok THEN n.val ELSE max_count

\* lines 350-356: group_max_count after an '@' line
CountAfter(max_count, word) ==
    LET n == ParseInt(Tail(word))
    IN  IF n.ok /\ n.val > 0 THEN n.val ELSE max_count

\* lines 349-366: the loop over the words of a block, from position i
RECURSIVE WordLoop(_, _, _)
WordLoop(words, i, acc) ==
    IF i > Len(words) THEN acc
    ELSE LET word == words[i]
         IN  IF StartsWith(word, <<"@">>)
             THEN WordLoop(words, i + 1, [acc EXCEPT !.max_count = CountAfter(@, word)])
             ELSE IF StartsWith(word, <<"!">>)
             THEN WordLoop(words, i + 1,
                           [acc EXCEPT !.filter = Append(@, _parse_word(Tail(word)))])
             ELSE IF StartsWith(word, <<"+">>)
             THEN WordLoop(words, i + 1,
                           [acc EXCEPT !.required = Append(@, _parse_word(Tail(word)))])
             ELSE WordLoop(words, i + 1,
                           [acc EXCEPT !.normal = Append(@, _parse_word(word))])

\* faulty variant: a word whose regex does not compile is left out
BlockWords_DropFailedRegex(words) ==
    LET Body(w) == IF w[1] \in {"+", "!"} THEN Tail(w) ELSE w
        Keep(w) == \/ w[1] = "@"
                   \/ _parse_word(Body(w)).is_regex
                   \/ RegexClose(_parse_word(Body(w)).word) = 0
    IN  WordLoop(SelectSeq(words, Keep), 1,
                 [required |-> <<>>, normal |-> <<>>, filter |-> <<>>, max_count |-> 0])

\* lines 344-366
BlockWords(words) ==
    WordLoop(words, 1, [required |-> <<>>, normal |-> <<>>, filter |-> <<>>, max_count |-> 0])

WordsOf(tokens) == [k \in 1..Len(tokens) |-> tokens[k].word]

\* lines 369-372
GroupKey(required, normal) ==
    IF normal # <<>> THEN Join(<<" ">>, WordsOf(normal)) ELSE Join(<<" ">>, WordsOf(required))

\* line 379: w.get("display_name") or w["word"]
DisplayPart(w) ==
    IF w.display_name # None /\ w.display_name # <<>> THEN w.display_name ELSE w.word

\* faulty variant: the required tokens are named before the normal tokens
DisplayName_RequiredFirst(alias, required, normal) ==
    IF alias # None /\ alias # <<>> THEN alias
    ELSE LET all_words == required \o normal
         IN  Join(<<" ", "/", " ">>, [k \in 1..Len(all_words) |-> DisplayPart(all_words[k])])

\* lines 375-380, for a group that is emitted (all_words is not empty)
DisplayName(alias, required, normal) ==
    IF alias # None /\ alias # <<>> THEN alias
    ELSE LET all_words == normal \o required
         IN  Join(<<" ", "/", " ">>, [k \in 1..Len(all_words) |-> DisplayPart(all_words[k])])

\* faulty variant: a block always emits a group
EmittedGroups_Always(words, alias) ==
    LET w == BlockWords(words)
    IN  << [required |-> w.required, normal |-> w.normal,
            group_key |-> GroupKey(w.required, w.normal),
            display_name |-> DisplayName(alias, w.required, w.normal),
            max_count |-> w.max_count] >>

\* lines 368-388: the groups a block appends to processed_groups (none or one)
EmittedGroups(words, alias) ==
    LET w == BlockWords(words)
    IN  IF w.required # <<>> \/ w.normal # <<>>
        THEN << [required |-> w.required, normal |-> w.normal,
                 group_key |-> GroupKey(w.required, w.normal),
                 display_name |-> DisplayName(alias, w.required, w.normal),
                 max_count |-> w.max_count] >>
        ELSE <<>>

\* faulty variant: a new group is put in front of the list
AddGroups_InFront(groups, new) == new \o groups

\* line 382: processed_groups.append(...)
AddGroups(groups, new) == groups \o new

----------------------------------------------------------------------------
(* Inputs of the parser: texts made of the blocks below, joined by blank lines *)

\* required Tesla, normal Musk
BlkTesla ==
    <<"+", "T", "e", "s", "l", "a", "\n", "M", "u", "s", "k">>

\* a filter line only
BlkSpam ==
    <<"!", "s", "p", "a", "m">>

\* section header, a global word, a '!' line
BlkGlobalUpper ==
    <<"[", "G", "L", "O", "B", "A", "L", "_", "F", "I", "L", "T", "E", "R", "]", "\n", "a", "d", "\n", "!", "x">>

\* lower-case section header, a padded line
BlkGlobalLower ==
    <<"[", "g", "l", "o", "b", "a", "l", "_", "f", "i", "l", "t", "e", "r", "]", "\n", " ", "x", " ">>

\* section header, alias, normal with display name, required, count, malformed count,
\* zero count
BlkWordGroups ==
    <<"[", "W", "O", "R", "D", "_", "G", "R", "O", "U", "P", "S", "]", "\n", "[", "H", "o", "t", "]", "\n", "a", " ", "=", ">", " ", "A", "\n", "+", "b", "\n", "@", "2", "\n", "@", "x", "\n", "@", "0">>

\* comment, normal literal, count, normal regex, second count
BlkRegex ==
    <<"#", " ", "c", "\n", "B", "\n", "@", "1", "\n", "/", "a", "|", "b", "/", "\n", "@", "3">>

\* count lines and a filter line only
BlkCountOnly ==
    <<"@", "3", "\n", "!", "y", "\n", "@", "x">>

\* an alias line only
BlkAliasOnly ==
    <<"[", "H", "o", "t", "]">>

\* empty alias, required, normal with display name, zero count
BlkEmptyAlias ==
    <<"[", "]", "\n", "+", "q", "\n", "r", "=", ">", "R", "\n", "@", "0", "\n", "!", "z">>

\* a comment only, behind a third newline
BlkComment ==
    <<"\n", "#", " ", "o", "n", "l", "y", " ">>

\* regexes that do not compile (normal with display name, required with
\* flag, filter), a bracket line that is not the first line, required,
\* negative count
BlkLateHeader ==
    <<"/", "(", "x", "/", " ", "=", ">", " ", "N", "\n", "[", "W", "O", "R", "D", "_", "G", "R", "O", "U", "P", "S", "]", "\n", "+", "/", "(", "/", "i", "\n", "+", "y", "\n", "@", "-", "1", "\n", "!", "/", "(", "(", "a", "/">>

BlockPool ==
    {BlkTesla,
     BlkSpam,
     BlkGlobalUpper,
     BlkGlobalLower,
     BlkWordGroups,
     BlkRegex,
     BlkCountOnly,
     BlkAliasOnly,
     BlkEmptyAlias,
     BlkComment,
     BlkLateHeader}

TitleMuskPlan ==
    <<"T", "e", "s", "l", "a", " ", "u", "n", "v", "e", "i", "l", "s", " ", "M", "u", "s", "k", "'", "s", " ", "n", "e", "w", " ", "p", "l", "a", "n">>

TitleSpamAlert ==
    <<"T", "e", "s", "l", "a", " ", "s", "p", "a", "m", " ", "a", "l", "e", "r", "t">>

TitleAdB ==
    <<"a", "d", " ", "B">>

TitleQR ==
    <<"q", " ", "r", " ", "y", " ", "x">>

ConfigTexts ==
    {Join(NL \o NL, bs) : bs \in SeqsUpTo(BlockPool, MaxBlocks)}

ParseTitles == {TitleMuskPlan, TitleSpamAlert, TitleAdB, TitleQR}

----------------------------------------------------------------------------
(* parse_keyword_config run block by block, then matches_word_groups called *)
(* on what it returned                                                      *)

InitParse ==
    /\ config_text \in ConfigTexts
    /\ title = StrTitle(<<>>)
    /\ word_groups = <<>>
    /\ filter_words = <<>>
    /\ global_filters = <<>>
    /\ result = FALSE
    /\ group_idx = 0
    /\ blocks = <<>>
    /\ block_idx = 0
    /\ current_section = "WORD_GROUPS"
    /\ processed_groups = <<>>
    /\ parsed_filter_words = <<>>
    /\ parsed_global_filters = <<>>
    /\ pc = "start"
    /\ IdleOthers

\* lines 304-310
ParseStart ==
    /\ pc = "start"
    /\ blocks' = TextBlocks(config_text)
    /\ processed_groups' = <<>>
    /\ parsed_filter_words' = <<>>
    /\ parsed_global_filters' = <<>>
    /\ current_section' = "WORD_GROUPS"
    /\ block_idx' = 1
    /\ pc' = "loop"
    /\ UNCHANGED config_text
    /\ UNCHANGED matchVars
    /\ UNCHANGED otherVars

\* lines 312-388: one iteration of `for group in word_groups`
ParseBlock ==
    /\ pc = "loop"
    /\ block_idx <= Len(blocks)
    /\ LET lines0 == BlockLines(blocks[block_idx])
           section == SectionAfter(current_section, lines0)
           lines == LinesAfterHeader(lines0)
           alias == GroupAlias(lines)
           words == WordsAfterAlias(lines)
       IN  IF lines0 = <<>>
           THEN UNCHANGED <<current_section, processed_groups,
                            parsed_filter_words, parsed_global_filters>>
           ELSE /\ current_section' = section
                /\ IF section = "GLOBAL_FILTER"
                   THEN /\ parsed_global_filters' =
                               parsed_global_filters \o GlobalFilterLines(lines)
                        /\ UNCHANGED <<processed_groups, parsed_filter_words>>
                   ELSE /\ parsed_filter_words' =
                               parsed_filter_words \o BlockWords(words).filter
                        /\ processed_groups' =
                               AddGroups(processed_groups, EmittedGroups(words, alias))
                        /\ UNCHANGED parsed_global_filters
    /\ block_idx' = block_idx + 1
    /\ UNCHANGED <<config_text, blocks, pc>>
    /\ UNCHANGED matchVars
    /\ UNCHANGED otherVars

\* line 390
ParseReturn ==
    /\ pc = "loop"
    /\ block_idx > Len(blocks)
    /\ pc' = "parsed"
    /\ UNCHANGED parseVars
    /\ UNCHANGED matchVars
    /\ UNCHANGED otherVars

\* the caller passes the parsed groups to matches_word_groups, with or
\* without the parsed filter list as filter_words
MatchParsed ==
    /\ pc = "parsed"
    /\ \E t \in ParseTitles, merge \in BOOLEAN :
          /\ title' = StrTitle(t)
          /\ word_groups' = processed_groups
          /\ filter_words' = IF merge THEN parsed_filter_words ELSE <<>>
          /\ global_filters' = parsed_global_filters
    /\ result' = matches_word_groups(title', word_groups', filter_words', global_filters')
    /\ group_idx' = MatchOutcome(title', word_groups', filter_words', global_filters').idx
    /\ pc' = "returned"
    /\ UNCHANGED parseVars
    /\ UNCHANGED otherVars

NextParse == ParseStart \/ ParseBlock \/ ParseReturn \/ MatchParsed

SpecParse == InitParse /\ [][NextParse]_vars

----------------------------------------------------------------------------
(* _parse_word called on its own *)

MaxWordLen == 6

\* slash, a lower-case letter (also a regex flag), an upper-case letter, an
\* opening parenthesis (a pattern that does not compile), '=', '>', blank
WordChars == {"/", "a", "B", "(", "=", ">", " "}

Words == SeqsUpTo(WordChars, MaxWordLen)

InitWord ==
    /\ word_arg \in Words
    /\ token = None
    /\ pc = "call"
    /\ keywords = <<>>
    /\ IdleMatch
    /\ IdleParse
    /\ IdleTopic
    /\ IdleFetch
    /\ IdleCollect

\* lines 150-194
CallParseWord ==
    /\ pc = "call"
    /\ token' = _parse_word(word_arg)
    /\ pc' = "returned"
    /\ UNCHANGED word_arg
    /\ UNCHANGED <<matchVars, parseVars, keywords, topicVars, fetchVars, collectVars>>

NextWord == CallParseWord

SpecWord == InitWord /\ [][NextWord]_vars

----------------------------------------------------------------------------
(* The topic catalog and collect_by_topic *)

\* lines 467-559: the dict KEYWORD_GROUPS, its items in the order of the source
KEYWORD_GROUPS ==
    << [key |-> <<"U+79D1", "U+6280", "U+516C", "U+53F8">>,
        keywords |-> <<
            <<"/", "U+534E", "U+4E3A", "|", "U+4EFB", "U+6B63", "U+975E", "|", "U+4F59", "U+627F", "U+4E1C", "|", "U+9E3F", "U+8499", "|", "U+6D77", "U+601D", "/">>,
            <<"/", "U+6BD4", "U+4E9A", "U+8FEA", "|", "U+738B", "U+4F20", "U+798F", "|", "U+65B9", "U+7A0B", "U+8C79", "|", "U+817E", "U+52BF", "/">>,
            <<"/", "U+5927", "U+7586", "|", "U+6C6A", "U+6ED4", "/">>,
            <<"/", "U+7279", "U+65AF", "U+62C9", "|", "U+9A6C", "U+65AF", "U+514B", "|", "T", "e", "s", "l", "a", "|", "E", "l", "o", "n", ".", "?", "M", "u", "s", "k", "/">>,
            <<"/", "U+82F1", "U+4F1F", "U+8FBE", "|", "U+9EC4", "U+4EC1", "U+52CB", "|", "N", "V", "I", "D", "I", "A", "/">>,
            <<"/", "U+5FAE", "U+8F6F", "|", "M", "i", "c", "r", "o", "s", "o", "f", "t", "|", "W", "i", "n", "d", "o", "w", "s", "|", "A", "z", "u", "r", "e", "/">>,
            <<"/", "U+8C37", "U+6B4C", "|", "G", "o", "o", "g", "l", "e", "|", "A", "n", "d", "r", "o", "i", "d", "|", "Y", "o", "u", "T", "u", "b", "e", "/">>,
            <<"/", "U+82F9", "U+679C", "|", "i", "P", "h", "o", "n", "e", "|", "i", "P", "a", "d", "|", "M", "a", "c", "B", "o", "o", "k", "|", "i", "O", "S", "/">>,
            <<"/", "U+817E", "U+8BAF", "|", "U+9A6C", "U+5316", "U+817E", "|", "U+5FAE", "U+4FE1", "/">>,
            <<"/", "U+963F", "U+91CC", "|", "U+9A6C", "U+4E91", "|", "U+6DD8", "U+5B9D", "|", "U+5929", "U+732B", "|", "U+652F", "U+4ED8", "U+5B9D", "/">>,
            <<"/", "U+5B57", "U+8282", "|", "U+5F20", "U+4E00", "U+9E23", "|", "U+6296", "U+97F3", "|", "T", "i", "k", "T", "o", "k", "/">>,
            <<"/", "U+4EAC", "U+4E1C", "|", "U+5218", "U+5F3A", "U+4E1C", "/">>,
            <<"/", "U+767E", "U+5EA6", "|", "U+674E", "U+5F66", "U+5B8F", "/">>,
            <<"/", "U+5C0F", "U+7C73", "|", "U+96F7", "U+519B", "/">>
        >>],
       [key |-> <<"A", "I">>,
        keywords |-> <<
            <<"/", "\\", "b", "A", "I", "\\", "b", "/">>,
            <<"U+4EBA", "U+5DE5", "U+667A", "U+80FD">>,
            <<"/", "O", "p", "e", "n", "A", "I", "|", "C", "h", "a", "t", "G", "P", "T", "|", "G", "P", "T", "-", "4", "|", "G", "P", "T", "-", "5", "|", "G", "P", "T", "4", "|", "G", "P", "T", "5", "/">>,
            <<"/", "C", "l", "a", "u", "d", "e", "|", "A", "n", "t", "h", "r", "o", "p", "i", "c", "/">>,
            <<"/", "U+6DF1", "U+5EA6", "U+6C42", "U+7D22", "|", "D", "e", "e", "p", "S", "e", "e", "k", "/">>,
            <<"/", "U+5927", "U+6A21", "U+578B", "|", "L", "L", "M", "/">>,
            <<"/", "U+673A", "U+5668", "U+5B66", "U+4E60", "|", "U+6DF1", "U+5EA6", "U+5B66", "U+4E60", "/">>,
            <<"U+667A", "U+80FD", "U+4F53">>,
            <<"/", "G", "e", "m", "i", "n", "i", "|", "B", "a", "r", "d", "/">>,
            <<"/", "S", "o", "r", "a", "|", "U+6587", "U+751F", "U+89C6", "U+9891", "/">>,
            <<"/", "C", "o", "p", "i", "l", "o", "t", "|", "G", "i", "t", "H", "u", "b", ".", "?", "C", "o", "p", "i", "l", "o", "t", "/">>
        >>],
       [key |-> <<"U+82AF", "U+7247", "U+534A", "U+5BFC", "U+4F53">>,
        keywords |-> <<
            <<"U+82AF", "U+7247">>,
            <<"U+534A", "U+5BFC", "U+4F53">>,
            <<"U+5149", "U+523B", "U+673A">>,
            <<"/", "U+53F0", "U+79EF", "U+7535", "|", "T", "S", "M", "C", "/">>,
            <<"/", "U+4E2D", "U+82AF", "|", "S", "M", "I", "C", "/">>,
            <<"/", "I", "n", "t", "e", "l", "|", "U+82F1", "U+7279", "U+5C14", "/">>,
            <<"/", "A", "M", "D", "|", "U+9510", "U+9F99", "|", "R", "y", "z", "e", "n", "/">>,
            <<"/", "A", "S", "M", "L", "|", "U+963F", "U+65AF", "U+9EA6", "/">>,
            <<"/", "U+9AD8", "U+901A", "|", "Q", "u", "a", "l", "c", "o", "m", "m", "/">>,
            <<"/", "U+8054", "U+53D1", "U+79D1", "|", "M", "e", "d", "i", "a", "T", "e", "k", "/">>
        >>],
       [key |-> <<"U+65B0", "U+80FD", "U+6E90">>,
        keywords |-> <<
            <<"U+65B0", "U+80FD", "U+6E90">>,
            <<"/", "U+7535", "U+52A8", "U+8F66", "|", "U+7535", "U+52A8", "U+6C7D", "U+8F66", "|", "U+7EAF", "U+7535", "/">>,
            <<"U+9502", "U+7535", "U+6C60">>,
            <<"/", "U+5149", "U+4F0F", "|", "U+592A", "U+9633", "U+80FD", "/">>,
            <<"U+50A8", "U+80FD">>,
            <<"U+6C22", "U+80FD">>,
            <<"U+5145", "U+7535", "U+6869">>,
            <<"/", "U+5B81", "U+5FB7", "U+65F6", "U+4EE3", "|", "C", "A", "T", "L", "/">>
        >>],
       [key |-> <<"U+673A", "U+5668", "U+4EBA">>,
        keywords |-> <<
            <<"U+673A", "U+5668", "U+4EBA">>,
            <<"/", "U+673A", "U+5668", "U+72D7", "|", "U+56DB", "U+8DB3", "/">>,
            <<"U+5177", "U+8EAB", "U+667A", "U+80FD">>,
            <<"/", "U+4EBA", "U+5F62", "U+673A", "U+5668", "U+4EBA", "|", "U+4EFF", "U+4EBA", "/">>,
            <<"/", "U+5B87", "U+6811", "|", "U", "n", "i", "t", "r", "e", "e", "/">>,
            <<"/", "U+667A", "U+5143", "|", "A", "g", "i", "B", "o", "t", "/">>,
            <<"/", "U+6CE2", "U+58EB", "U+987F", "U+52A8", "U+529B", "|", "B", "o", "s", "t", "o", "n", ".", "?", "D", "y", "n", "a", "m", "i", "c", "s", "/">>,
            <<"/", "F", "i", "g", "u", "r", "e", "|", "1", "X", "|", "A", "g", "i", "l", "i", "t", "y", "/">>
        >>],
       [key |-> <<"U+822A", "U+5929">>,
        keywords |-> <<
            <<"/", "U+822A", "U+5929", "|", "U+592A", "U+7A7A", "/">>,
            <<"/", "U+706B", "U+7BAD", "|", "U+53D1", "U+5C04", "/">>,
            <<"/", "U+536B", "U+661F", "|", "U+7A7A", "U+95F4", "U+7AD9", "/">>,
            <<"/", "U+6708", "U+7403", "|", "U+767B", "U+6708", "/">>,
            <<"/", "U+706B", "U+661F", "|", "U+6DF1", "U+7A7A", "/">>,
            <<"/", "S", "p", "a", "c", "e", "X", "|", "U+661F", "U+8230", "|", "S", "t", "a", "r", "s", "h", "i", "p", "/">>,
            <<"/", "U+84DD", "U+8272", "U+8D77", "U+6E90", "|", "B", "l", "u", "e", ".", "?", "O", "r", "i", "g", "i", "n", "/">>
        >>],
       [key |-> <<"U+91D1", "U+878D">>,
        keywords |-> <<
            <<"/", "U+80A1", "U+5E02", "|", "A", "U+80A1", "|", "U+6E2F", "U+80A1", "|", "U+7F8E", "U+80A1", "/">>,
            <<"/", "U+57FA", "U+91D1", "|", "E", "T", "F", "/">>,
            <<"U+9EC4", "U+91D1">>,
            <<"/", "U+6BD4", "U+7279", "U+5E01", "|", "U+52A0", "U+5BC6", "U+8D27", "U+5E01", "|", "U+6570", "U+5B57", "U+8D27", "U+5E01", "|", "B", "T", "C", "|", "E", "T", "H", "/">>,
            <<"/", "U+592E", "U+884C", "|", "U+7F8E", "U+8054", "U+50A8", "|", "U+964D", "U+606F", "|", "U+52A0", "U+606F", "/">>,
            <<"U+6C47", "U+7387">>,
            <<"/", "U+4EBA", "U+6C11", "U+5E01", "|", "U+7F8E", "U+5143", "/">>
        >>],
       [key |-> <<"U+56FD", "U+9645">>,
        keywords |-> <<
            <<"/", "U+7F8E", "U+56FD", "|", "U+62DC", "U+767B", "|", "U+7279", "U+6717", "U+666E", "|", "T", "r", "u", "m", "p", "|", "B", "i", "d", "e", "n", "/">>,
            <<"/", "U+4FC4", "U+7F57", "U+65AF", "|", "U+666E", "U+4EAC", "|", "P", "u", "t", "i", "n", "/">>,
            <<"/", "U+65E5", "U+672C", "|", "U+5CB8", "U+7530", "/">>,
            <<"/", "U+97E9", "U+56FD", "|", "U+5C39", "U+9521", "U+60A6", "/">>,
            <<"/", "U+6B27", "U+76DF", "|", "U+6B27", "U+6D32", "/">>,
            <<"/", "U+4E2D", "U+4E1C", "|", "U+4EE5", "U+8272", "U+5217", "|", "U+5DF4", "U+52D2", "U+65AF", "U+5766", "/">>,
            <<"U+5236", "U+88C1">>,
            <<"U+5173", "U+7A0E">>,
            <<"/", "U+4E4C", "U+514B", "U+5170", "|", "U+4FC4", "U+4E4C", "/">>
        >>] >>

MaxCalls == 3

\* list(KEYWORD_GROUPS.keys())
TopicKeys == [i \in 1..Len(KEYWORD_GROUPS) |-> KEYWORD_GROUPS[i].key]

\* KEYWORD_GROUPS.get(group_name, [])
CatalogGet(group_name) ==
    IF \E i \in 1..Len(KEYWORD_GROUPS) : KEYWORD_GROUPS[i].key = group_name
    THEN KEYWORD_GROUPS[CHOOSE i \in 1..Len(KEYWORD_GROUPS) :
                            KEYWORD_GROUPS[i].key = group_name].keywords
    ELSE <<>>

\* faulty variant: the cache keeps the entry of the latest topic only
ParsedAfter_LatestOnly(cache, group_name) ==
    IF group_name \in DOMAIN cache THEN cache
    ELSE LET kws == CatalogGet(group_name)
         IN  [k \in {group_name} |-> [i \in 1..Len(kws) |-> _parse_word(kws[i])]]

\* lines 567-569: _PARSED_KEYWORD_GROUPS after _get_parsed_keyword_group(group_name)
ParsedAfter(cache, group_name) ==
    IF group_name \in DOMAIN cache THEN cache
    ELSE LET kws == CatalogGet(group_name)
         IN  [k \in DOMAIN cache \cup {group_name} |->
                 IF k = group_name
                 THEN [i \in 1..Len(kws) |-> _parse_word(kws[i])]
                 ELSE cache[k]]

\* line 570: what _get_parsed_keyword_group(group_name) returns
_get_parsed_keyword_group(cache, group_name) == ParsedAfter(cache, group_name)[group_name]

\* faulty variant: a name that is no key is taken as it is
ActualTopic_NameAsGiven(t) ==
    LET hits == {i \in 1..Len(TopicKeys) :
                    Lower(TopicKeys[i]) = Lower(t) \/ TopicKeys[i] = t}
    IN  IF hits = {} THEN (IF t = <<>> THEN None ELSE t)
        ELSE TopicKeys[CHOOSE i \in hits : \A j \in hits : i <= j]

\* lines 1350-1354: the first key equal to topic without regard to case, else None
ActualTopic(t) ==
    LET hits == {i \in 1..Len(TopicKeys) :
                    Lower(TopicKeys[i]) = Lower(t) \/ TopicKeys[i] = t}
    IN  IF hits = {} THEN None
        ELSE TopicKeys[CHOOSE i \in hits : \A j \in hits : i <= j]

\* repr() of a str without quotes or escapes in it
StrRepr(s) == <<"'">> \o s \o <<"'">>

\* str() of a list of such strs
ListRepr(l) == <<"[">> \o Join(<<",", " ">>, [i \in 1..Len(l) |-> StrRepr(l[i])]) \o <<"]">>

\* line 1359
UnknownTopicError(t) ==
    <<"U", "n", "k", "n", "o", "w", "n", " ", "t", "o", "p", "i", "c", ":", " ">> \o t \o <<".", " ", "A", "v", "a", "i", "l", "a", "b", "l", "e", ":", " ">> \o ListRepr(TopicKeys)

\* lines 1357-1364; collect_news_called and parsed_now are not entries of the
\* dict: they record that line 1383 was not reached and line 569 did not run
UnknownTopicResult(t) ==
    [success |-> FALSE, error |-> UnknownTopicError(t), platforms |-> <<>>,
     total_count |-> 0, failed |-> <<>>,
     collect_news_called |-> FALSE, parsed_now |-> FALSE, word_groups |-> <<>>]

\* lines 1366-1388: the word group handed to collect_news, whose dict is
\* returned; success is what the fetch comes to
KnownTopicResult(cache, actual_topic, success) ==
    [success |-> success, error |-> None,
     collect_news_called |-> TRUE, parsed_now |-> actual_topic \notin DOMAIN cache,
     word_groups |-> << [required |-> <<>>,
                         normal |-> _get_parsed_keyword_group(cache, actual_topic),
                         group_key |-> actual_topic,
                         display_name |-> actual_topic,
                         max_count |-> 0] >>]

\* topic arguments: every key, keys in another letter case, and names that
\* are no key (empty, a key with a trailing blank, parts of keys)
TopicNames ==
    {<<"A", "I">>,
     <<"a", "i">>,
     <<"A", "i">>,
     <<"a", "I">>,
     <<"U+79D1", "U+6280", "U+516C", "U+53F8">>,
     <<"U+82AF", "U+7247", "U+534A", "U+5BFC", "U+4F53">>,
     <<"U+65B0", "U+80FD", "U+6E90">>,
     <<"U+673A", "U+5668", "U+4EBA">>,
     <<"U+822A", "U+5929">>,
     <<"U+91D1", "U+878D">>,
     <<"U+56FD", "U+9645">>,
     <<>>,
     <<"x", "x">>,
     <<"A", "I", " ">>,
     <<"A">>,
     <<"U+79D1", "U+6280">>,
     <<"U+91D1">>}

InitTopic ==
    /\ IdleTopic
    /\ pc = "topic"
    /\ IdleMatch
    /\ IdleParse
    /\ IdleWord
    /\ IdleKeywords
    /\ IdleFetch
    /\ IdleCollect

\* lines 1328-1388
CollectByTopic ==
    /\ pc = "topic"
    /\ topic_calls < MaxCalls
    /\ \E t \in TopicNames, success \in BOOLEAN :
          /\ topic' = t
          /\ IF ActualTopic(t) = None \/ ActualTopic(t) = <<>>
             THEN /\ topic_result' = UnknownTopicResult(t)
                  /\ UNCHANGED parsed_keyword_groups
             ELSE /\ topic_result' =
                        KnownTopicResult(parsed_keyword_groups, ActualTopic(t), success)
                  /\ parsed_keyword_groups' =
                        ParsedAfter(parsed_keyword_groups, ActualTopic(t))
    /\ topic_calls' = topic_calls + 1
    /\ UNCHANGED pc
    /\ UNCHANGED <<matchVars, parseVars, wordVars, keywords, fetchVars, collectVars>>

NextTopic == CollectByTopic

SpecTopic == InitTopic /\ [][NextTopic]_vars

----------------------------------------------------------------------------
(* matches_keywords *)

\* lines 393-429; text is a str or None
matches_keywords(text, kws, gfs) ==
    IF text.kind = "none" \/ text.text = <<>> THEN FALSE
    ELSE LET text_lower == Lower(text.text)
         IN  IF GlobalFilterHit(text_lower, gfs) THEN FALSE
             ELSE IF kws = <<>> THEN TRUE
             ELSE \E k \in 1..Len(kws) : _word_matches(_parse_word(kws[k]), text_lower)

MaxKeywords == 2

\* keywords: a literal, a regex, a literal between blanks, a regex that does
\* not compile, a literal with a display name
KeywordPool ==
    {<<"A">>,
     <<"/", "a", ".", "|", "b", "b", "/">>,
     <<" ", "b", " ">>,
     <<"/", "(", "/">>,
     <<"a", " ", "=", ">", " ", "x">>}

KeywordTexts == {StrTitle(s) : s \in SeqsUpTo(TitleChars, MaxTitleLen)} \cup {NoneTitle}

InitKeywords ==
    /\ title \in KeywordTexts
    /\ keywords \in SeqsUpTo(KeywordPool, MaxKeywords)
    /\ global_filters \in GlobalChoices
    /\ result = FALSE
    /\ word_groups = <<>>
    /\ filter_words = <<>>
    /\ group_idx = 0
    /\ pc = "call"
    /\ IdleParse
    /\ IdleWord
    /\ IdleTopic
    /\ IdleFetch
    /\ IdleCollect

CallMatchesKeywords ==
    /\ pc = "call"
    /\ result' = matches_keywords(title, keywords, global_filters)
    /\ pc' = "returned"
    /\ UNCHANGED <<title, keywords, global_filters, word_groups, filter_words, group_idx>>
    /\ UNCHANGED <<parseVars, wordVars, topicVars, fetchVars, collectVars>>

NextKeywords == CallMatchesKeywords

SpecKeywords == InitKeywords /\ [][NextKeywords]_vars

----------------------------------------------------------------------------
(* PlatformCollector.fetch_data: the retry loop *)

MaxRetries == 2

\* lines 77-79
PLATFORM_ALIASES == { [id |-> <<"b", "i", "l", "i", "b", "i", "l", "i">>, actual |-> <<"b", "i", "l", "i", "b", "i", "l", "i", "-", "h", "o", "t", "-", "s", "e", "a", "r", "c", "h">>] }

\* an id_info argument: a str, or a tuple (id, alias)
StrId(id) == [kind |-> "str", id |-> id, alias |-> None]
TupleId(id, alias) == [kind |-> "tuple", id |-> id, alias |-> alias]

\* line 647: PLATFORM_ALIASES.get(id_value, id_value)
ActualId(id) ==
    IF \E a \in PLATFORM_ALIASES : a.id = id
    THEN (CHOOSE a \in PLATFORM_ALIASES : a.id = id).actual
    ELSE id

\* lines 640-648: id_value and alias as returned
IdValue(info) == ActualId(info.id)
Alias(info) == IF info.kind = "tuple" THEN info.alias ELSE info.id

\* what one request comes to: requests.get or raise_for_status raises, or a
\* body arrives that json.loads takes or not, that is a JSON object or not,
\* with its "status" entry (None: no such entry)
Reply(raised, text, parses, is_dict, status) ==
    [raised |-> raised, text |-> text, parses |-> parses, is_dict |-> is_dict,
     status |-> status]

Replies ==
    { Reply(TRUE, None, FALSE, FALSE, None),
      Reply(FALSE, <<"<", "h", "t", "m", "l", ">">>, FALSE, FALSE, None),
      Reply(FALSE, <<"[", "]">>, TRUE, FALSE, None),
      Reply(FALSE, <<"{", "}">>, TRUE, TRUE, None),
      Reply(FALSE, <<"{", "\"", "s", "t", "a", "t", "u", "s", "\"", ":", " ", "\"", "e", "r", "r", "o", "r", "\"", "}">>, TRUE, TRUE, <<"e", "r", "r", "o", "r">>),
      Reply(FALSE, <<"{", "\"", "s", "t", "a", "t", "u", "s", "\"", ":", " ", "\"", "s", "u", "c", "c", "e", "s", "s", "\"", "}">>, TRUE, TRUE, <<"s", "u", "c", "c", "e", "s", "s">>),
      Reply(FALSE, <<"{", "\"", "s", "t", "a", "t", "u", "s", "\"", ":", " ", "\"", "c", "a", "c", "h", "e", "\"", "}">>, TRUE, TRUE, <<"c", "a", "c", "h", "e">>) }

\* lines 659-673: the try block reaches its return
TryReturns(reply) ==
    /\ ~reply.raised
    /\ reply.parses
    /\ reply.is_dict
    /\ (IF reply.status = None THEN <<"U+672A", "U+77E5">> ELSE reply.status) \in {<<"s", "u", "c", "c", "e", "s", "s">>, <<"c", "a", "c", "h", "e">>}

\* line 656: the condition of the while loop
LoopContinues(r, m) == r <= m

\* faulty variant: one more wait is allowed
RetryAllowed_OneMore(r, m) == r <= m + 1

\* line 677: the condition under which the handler waits
RetryAllowed(r, m) == r <= m

IdInfos ==
    { StrId(<<"w", "e", "i", "b", "o">>),
      StrId(<<"b", "i", "l", "i", "b", "i", "l", "i">>),
      TupleId(<<"z", "h", "i", "h", "u">>, <<"U+77E5", "U+4E4E">>) }

InitFetch ==
    /\ id_info \in IdInfos
    /\ max_retries \in 0..MaxRetries
    /\ retries = 0
    /\ attempts = <<>>
    /\ sleeps = 0
    /\ response = None
    /\ pc = "call"
    /\ IdleMatch
    /\ IdleParse
    /\ IdleWord
    /\ IdleKeywords
    /\ IdleTopic
    /\ IdleCollect

\* lines 640-655: up to `retries = 0`
FetchStart ==
    /\ pc = "call"
    /\ retries' = 0
    /\ pc' = "while"
    /\ UNCHANGED <<id_info, max_retries, attempts, sleeps, response>>
    /\ UNCHANGED <<matchVars, parseVars, wordVars, keywords, topicVars, collectVars>>

\* lines 656-684 and 686: the loop condition, and one request with what
\* follows it up to the return or the call of time.sleep
FetchAttempt ==
    /\ pc = "while"
    /\ IF ~LoopContinues(retries, max_retries)
       THEN /\ response' = <<None, IdValue(id_info), Alias(id_info)>>
            /\ pc' = "returned"
            /\ UNCHANGED <<retries, attempts>>
       ELSE \E reply \in Replies :
               /\ attempts' = Append(attempts, [reply |-> reply, slept |-> FALSE])
               /\ IF TryReturns(reply)
                  THEN /\ response' = <<reply.text, IdValue(id_info), Alias(id_info)>>
                       /\ pc' = "returned"
                       /\ UNCHANGED retries
                  ELSE /\ retries' = retries + 1
                       /\ IF RetryAllowed(retries + 1, max_retries)
                          THEN /\ pc' = "sleep"
                               /\ UNCHANGED response
                          ELSE /\ response' = <<None, IdValue(id_info), Alias(id_info)>>
                               /\ pc' = "returned"
    /\ UNCHANGED <<id_info, max_retries, sleeps>>
    /\ UNCHANGED <<matchVars, parseVars, wordVars, keywords, topicVars, collectVars>>

\* lines 678-681: time.sleep(wait_time) returns
FetchSleep ==
    /\ pc = "sleep"
    /\ sleeps' = sleeps + 1
    /\ attempts' = [attempts EXCEPT ![Len(attempts)].slept = TRUE]
    /\ pc' = "while"
    /\ UNCHANGED <<id_info, max_retries, retries, response>>
    /\ UNCHANGED <<matchVars, parseVars, wordVars, keywords, topicVars, collectVars>>

NextFetch == FetchStart \/ FetchAttempt \/ FetchSleep

SpecFetch == InitFetch /\ [][NextFetch]_vars

\* the interpreter goes on running the function: a request ends (it is made
\* with a timeout) and a sleep ends
SpecFetchFair == SpecFetch /\ WF_vars(NextFetch)

----------------------------------------------------------------------------
(* PlatformCollector.crawl_websites and PlatformCollector.fetch_all *)

\* a dict is the sequence of its entries [key, value] in insertion order
DictHas(d, k) == \E i \in 1..Len(d) : d[i].key = k

\* d[k]
DictGet(d, k) == d[CHOOSE i \in 1..Len(d) : d[i].key = k].value

\* d[k] = v: an old key keeps its place
DictSet(d, k, v) ==
    IF DictHas(d, k)
    THEN [i \in 1..Len(d) |-> IF d[i].key = k THEN [key |-> k, value |-> v] ELSE d[i]]
    ELSE Append(d, [key |-> k, value |-> v])

\* lines 46-75
PLATFORM_NAMES ==
    { [id |-> <<"w", "e", "i", "b", "o">>, name |-> <<"U+5FAE", "U+535A", "U+70ED", "U+641C">>],
      [id |-> <<"z", "h", "i", "h", "u">>, name |-> <<"U+77E5", "U+4E4E", "U+70ED", "U+699C">>],
      [id |-> <<"d", "o", "u", "y", "i", "n">>, name |-> <<"U+6296", "U+97F3", "U+70ED", "U+70B9">>],
      [id |-> <<"t", "i", "e", "b", "a">>, name |-> <<"U+8D34", "U+5427">>],
      [id |-> <<"t", "o", "u", "t", "i", "a", "o">>, name |-> <<"U+4ECA", "U+65E5", "U+5934", "U+6761">>],
      [id |-> <<"b", "a", "i", "d", "u">>, name |-> <<"U+767E", "U+5EA6", "U+70ED", "U+641C">>],
      [id |-> <<"t", "h", "e", "p", "a", "p", "e", "r">>, name |-> <<"U+6F8E", "U+6E43", "U+65B0", "U+95FB">>],
      [id |-> <<"i", "f", "e", "n", "g">>, name |-> <<"U+51E4", "U+51F0", "U+7F51">>],
      [id |-> <<"z", "a", "o", "b", "a", "o">>, name |-> <<"U+8054", "U+5408", "U+65E9", "U+62A5">>],
      [id |-> <<"w", "a", "l", "l", "s", "t", "r", "e", "e", "t", "c", "n", "-", "h", "o", "t">>, name |-> <<"U+534E", "U+5C14", "U+8857", "U+89C1", "U+95FB">>],
      [id |-> <<"c", "l", "s", "-", "h", "o", "t">>, name |-> <<"U+8D22", "U+8054", "U+793E", "U+70ED", "U+95E8">>],
      [id |-> <<"b", "i", "l", "i", "b", "i", "l", "i">>, name |-> <<"B", "U+7AD9", "U+70ED", "U+95E8">>],
      [id |-> <<"b", "i", "l", "i", "b", "i", "l", "i", "-", "h", "o", "t", "-", "s", "e", "a", "r", "c", "h">>, name |-> <<"B", "U+7AD9", "U+70ED", "U+641C">>],
      [id |-> <<"3", "6", "k", "r">>, name |-> <<"3", "6", "U+6C2A">>],
      [id |-> <<"i", "t", "h", "o", "m", "e">>, name |-> <<"I", "T", "U+4E4B", "U+5BB6">>],
      [id |-> <<"v", "2", "e", "x">>, name |-> <<"V", "2", "E", "X">>],
      [id |-> <<"j", "u", "e", "j", "i", "n">>, name |-> <<"U+6398", "U+91D1">>],
      [id |-> <<"g", "i", "t", "h", "u", "b">>, name |-> <<"G", "i", "t", "H", "u", "b", " ", "T", "r", "e", "n", "d", "i", "n", "g">>] }

\* PLATFORM_NAMES.get(id, id)
PlatformName(id) ==
    IF \E p \in PLATFORM_NAMES : p.id = id
    THEN (CHOOSE p \in PLATFORM_NAMES : p.id = id).name
    ELSE id

\* the value of "title" in an item of the response: a JSON string, null, a
\* float or an int, with its str() text
JsonTitle(kind, text) == [kind |-> kind, text |-> text]

\* an item of the response: a JSON object, or with is_dict FALSE another JSON
\* value, whose .get raises AttributeError
ItemObject(t, url) == [is_dict |-> TRUE, title |-> t, url |-> url, mobileUrl |-> <<>>]

\* the body fetch_data returned, parsed: "items" is a list, null or absent
Body(items_kind, items) == [items_kind |-> items_kind, items |-> items]

\* fetch_data returned None in place of a body
NoResponse == Body("<None>", <<>>)

\* lines 729-731: the item is skipped
SkipsTitle(t) ==
    t.kind = "none" \/ t.kind = "float" \/ Strip(t.text) = <<>>

\* lines 727-744: the loop over the items from position index, on the titles
\* dict built so far; raised tells that an item raised
RECURSIVE CrawlItems(_, _, _)
CrawlItems(titles, items, index) ==
    IF index > Len(items) THEN [titles |-> titles, raised |-> FALSE]
    ELSE LET item == items[index]
             stripped == Strip(item.title.text)
         IN  IF ~item.is_dict THEN [titles |-> titles, raised |-> TRUE]
             ELSE IF SkipsTitle(item.title) THEN CrawlItems(titles, items, index + 1)
             ELSE IF DictHas(titles, stripped)
             THEN CrawlItems(
                      DictSet(titles, stripped,
                              [DictGet(titles, stripped) EXCEPT !.ranks = Append(@, index)]),
                      items, index + 1)
             ELSE CrawlItems(
                      DictSet(titles, stripped,
                              [ranks |-> <<index>>, url |-> item.url,
                               mobileUrl |-> item.mobileUrl]),
                      items, index + 1)

\* lines 722-750: results and failed_ids after the response of one platform;
\* body is NoResponse when fetch_data returned no text
CrawlOutcome(results, failed, actual_id, body) ==
    IF body = NoResponse
    THEN [results |-> results, failed_ids |-> Append(failed, actual_id)]
    ELSE IF body.items_kind = "null"
    THEN [results |-> DictSet(results, actual_id, <<>>),
          failed_ids |-> Append(failed, actual_id)]
    ELSE LET loop == CrawlItems(<<>>, body.items, 1)
         IN  [results |-> DictSet(results, actual_id, loop.titles),
              failed_ids |-> IF loop.raised THEN Append(failed, actual_id) ELSE failed]

\* lines 850-856
IdsList(ps) ==
    [i \in 1..Len(ps) |->
        IF ps[i].kind = "tuple" THEN ps[i] ELSE TupleId(ps[i].id, PlatformName(ps[i].id))]

\* the arguments of fetch_all besides platforms; word_groups_given is
\* `word_groups is not None`
FetchArgs(kws, max_items, given, groups, fws, gfs) ==
    [keywords |-> kws, max_items |-> max_items, word_groups_given |-> given,
     word_groups |-> groups, filter_words |-> fws, global_filters |-> gfs]

\* lines 868-879
ShouldInclude(t, args) ==
    IF args.word_groups_given
    THEN matches_word_groups(StrTitle(t), args.word_groups, args.filter_words,
                             args.global_filters)
    ELSE IF args.keywords # <<>>
    THEN matches_keywords(StrTitle(t), args.keywords, args.global_filters)
    ELSE TRUE

\* min(data["ranks"]) if data["ranks"] else 0
BestRank(ranks) ==
    IF ranks = <<>> THEN 0
    ELSE ranks[CHOOSE i \in 1..Len(ranks) : \A j \in 1..Len(ranks) : ranks[i] <= ranks[j]]

\* lines 863-890: the NewsItems of one platform, in the order of its titles
RECURSIVE PlatformItems(_, _, _, _, _)
PlatformItems(titles_data, k, platform_id, platform_name, args) ==
    IF k > Len(titles_data) THEN <<>>
    ELSE LET t == titles_data[k].key
             data == titles_data[k].value
             rest == PlatformItems(titles_data, k + 1, platform_id, platform_name, args)
         IN  IF ShouldInclude(t, args)
             THEN << [title |-> t, url |-> data.url, mobile_url |-> data.mobileUrl,
                      rank |-> BestRank(data.ranks), source |-> platform_id,
                      source_name |-> platform_name] >> \o rest
             ELSE rest

\* one item put into a list sorted by rank, after the items of the same rank
RECURSIVE InsertByRank(_, _)
InsertByRank(sorted, item) ==
    IF sorted = <<>> THEN <<item>>
    ELSE IF item.rank < sorted[1].rank THEN <<item>> \o sorted
    ELSE <<sorted[1]>> \o InsertByRank(Tail(sorted), item)

\* line 893: items.sort(key=lambda x: x.rank), a stable sort
RECURSIVE SortByRank(_)
SortByRank(items) ==
    IF items = <<>> THEN <<>>
    ELSE InsertByRank(SortByRank(SubSeq(items, 1, Len(items) - 1)), items[Len(items)])

\* faulty variant: the limit is applied when max_items is above 1 only
LimitItems_AboveOne(items, max_items) ==
    IF max_items > 1 /\ Len(items) > max_items THEN SubSeq(items, 1, max_items) ELSE items

\* lines 896-897
LimitItems(items, max_items) ==
    IF max_items > 0 /\ Len(items) > max_items THEN SubSeq(items, 1, max_items) ELSE items

\* lines 860-905: result.platforms and result.total_count after the first k
\* entries of raw_results
RECURSIVE BuildPlatforms(_, _, _, _)
BuildPlatforms(raw, names, args, k) ==
    IF k = 0 THEN [platforms |-> <<>>, total_count |-> 0]
    ELSE LET before == BuildPlatforms(raw, names, args, k - 1)
             platform_id == raw[k].key
             platform_name == IF DictHas(names, platform_id)
                              THEN DictGet(names, platform_id) ELSE platform_id
             items == LimitItems(
                          SortByRank(PlatformItems(raw[k].value, 1, platform_id,
                                                   platform_name, args)),
                          args.max_items)
         IN  [platforms |-> DictSet(before.platforms, platform_id,
                                    [name |-> platform_name, items |-> items,
                                     count |-> Len(items)]),
              total_count |-> before.total_count + Len(items)]

MaxPlatforms == 2

\* platform ids: a plain name, a name with an alias in PLATFORM_ALIASES, and
\* a tuple of the aliased id and a display name
PlatformPool ==
    { StrId(<<"w", "e", "i", "b", "o">>),
      StrId(<<"b", "i", "l", "i", "b", "i", "l", "i">>),
      TupleId(<<"b", "i", "l", "i", "b", "i", "l", "i", "-", "h", "o", "t", "-", "s", "e", "a", "r", "c", "h">>,
              <<"B">>) }

\* a title listed twice, a title between blanks, and a third title
BodyRepeated ==
    Body("list", << ItemObject(JsonTitle("str", <<"a", " ", "b">>), <<"u", "1">>),
                    ItemObject(JsonTitle("str", <<" ", "c", " ">>), <<"u", "2">>),
                    ItemObject(JsonTitle("str", <<"a", " ", "b">>), <<"u", "3">>),
                    ItemObject(JsonTitle("str", <<"a">>), <<>>) >>)

\* titles that are null, a float, blank and an int, then a string
BodySkipped ==
    Body("list", << ItemObject(JsonTitle("none", <<"N", "o", "n", "e">>), <<>>),
                    ItemObject(JsonTitle("float", <<"1", ".", "5">>), <<>>),
                    ItemObject(JsonTitle("str", <<" ", " ">>), <<>>),
                    ItemObject(JsonTitle("int", <<"7">>), <<>>),
                    ItemObject(JsonTitle("str", <<"B">>), <<"u", "5">>) >>)

\* an item that is not an object, after one that is
BodyBadItem ==
    Body("list", << ItemObject(JsonTitle("str", <<"a">>), <<"u", "1">>),
                    [ItemObject(JsonTitle("none", <<>>), <<>>) EXCEPT !.is_dict = FALSE],
                    ItemObject(JsonTitle("str", <<"c">>), <<>>) >>)

\* what fetch_data returns first: None, or the text of a reply whose status
\* is success or cache; the last two have no "items" key and "items": null
Responses ==
    {NoResponse, BodyRepeated, BodySkipped, BodyBadItem,
     Body("absent", <<>>), Body("null", <<>>)}

\* the modes of fetch_all: neither keywords nor word_groups, keywords,
\* word_groups, and both; max_items below, at and above zero
ArgPool ==
    { FetchArgs(<<>>, 2, FALSE, <<>>, <<>>, << <<"B">> >>),
      FetchArgs(<<>>, 1, FALSE, <<>>, <<>>, <<>>),
      FetchArgs(<< <<"a">> >>, 0, FALSE, <<>>, <<>>, << <<"b">> >>),
      FetchArgs(<< <<"/", "a", "|", "c", "/">> >>, 2, FALSE, <<>>, <<>>, <<>>),
      FetchArgs(<<>>, -1, TRUE, <<>>, <<>>, << <<"B">> >>),
      FetchArgs(<<>>, 1, TRUE, << Group(<<>>, <<TokA>>) >>,
                << Token(<<"c">>, FALSE, None, None) >>, <<>>),
      FetchArgs(<< <<"7">> >>, 50, TRUE, << Group(<<TokA>>, <<TokB>>) >>, <<>>,
                << <<"7">> >>) }

InitCollect ==
    /\ platforms \in SeqsUpTo(PlatformPool, MaxPlatforms)
    /\ fetch_args \in ArgPool
    /\ crawl_idx = 0
    /\ raw_results = <<>>
    /\ id_to_name = <<>>
    /\ failed_ids = <<>>
    /\ collection = None
    /\ pc = "call"
    /\ IdleMatch
    /\ IdleParse
    /\ IdleWord
    /\ IdleKeywords
    /\ IdleTopic
    /\ IdleFetch

\* lines 841-856 and 704-706: the empty result, ids_list, and the empty
\* results of crawl_websites
FetchAllStart ==
    /\ pc = "call"
    /\ collection' = [success |-> TRUE, platforms |-> <<>>, feeds |-> <<>>,
                      total_count |-> 0, failed |-> <<>>, error |-> <<>>]
    /\ crawl_idx' = 1
    /\ raw_results' = <<>>
    /\ id_to_name' = <<>>
    /\ failed_ids' = <<>>
    /\ pc' = "crawl"
    /\ UNCHANGED <<platforms, fetch_args>>
    /\ UNCHANGED <<matchVars, parseVars, wordVars, keywords, topicVars, fetchVars>>

\* lines 707-757: one platform of ids_list, with what fetch_data returned
CrawlPlatform ==
    /\ pc = "crawl"
    /\ crawl_idx <= Len(platforms)
    /\ \E body \in Responses :
          LET info == IdsList(platforms)[crawl_idx]
              actual_id == ActualId(info.id)
              outcome == CrawlOutcome(raw_results, failed_ids, actual_id, body)
          IN  /\ id_to_name' = DictSet(id_to_name, actual_id, info.alias)
              /\ raw_results' = outcome.results
              /\ failed_ids' = outcome.failed_ids
    /\ crawl_idx' = crawl_idx + 1
    /\ UNCHANGED <<platforms, fetch_args, collection, pc>>
    /\ UNCHANGED <<matchVars, parseVars, wordVars, keywords, topicVars, fetchVars>>

\* lines 759 and 858-908: crawl_websites returns and the result is built
FetchAllFinish ==
    /\ pc = "crawl"
    /\ crawl_idx > Len(platforms)
    /\ LET built == BuildPlatforms(raw_results, id_to_name, fetch_args, Len(raw_results))
       IN  collection' = [collection EXCEPT
                              !.failed = failed_ids,
                              !.platforms = built.platforms,
                              !.total_count = built.total_count,
                              !.success = Len(failed_ids) < Len(platforms)]
    /\ pc' = "returned"
    /\ UNCHANGED <<platforms, fetch_args, crawl_idx, raw_results, id_to_name, failed_ids>>
    /\ UNCHANGED <<matchVars, parseVars, wordVars, keywords, topicVars, fetchVars>>

NextCollect == FetchAllStart \/ CrawlPlatform \/ FetchAllFinish

SpecCollect == InitCollect /\ [][NextCollect]_vars

----------------------------------------------------------------------------
(* Properties of matches_word_groups, checked under SpecMatch *)

\* hay contains needle when letter case is ignored
ContainsIgnoreCase(hay, needle) ==
    \E i \in 0..(Len(hay) - Len(needle)) :
        \A k \in 1..Len(needle) : LowerChar(hay[i + k]) = LowerChar(needle[k])

TitleHitsGlobal ==
    \E k \in 1..Len(global_filters) : ContainsIgnoreCase(CoerceTitle(title), global_filters[k])

TitleIsBlank == \A k \in 1..Len(CoerceTitle(title)) : CoerceTitle(title)[k] \in Whitespace

TitleHitsFilterWord ==
    \E k \in 1..Len(filter_words) : _word_matches(filter_words[k], Lower(CoerceTitle(title)))

\* the group's required tokens all match the title and, when it has normal
\* tokens, at least one of them matches
GroupQualifies(g) ==
    /\ \A k \in 1..Len(g.required) : _word_matches(g.required[k], Lower(CoerceTitle(title)))
    /\ (Len(g.normal) > 0 =>
           \E k \in 1..Len(g.normal) : _word_matches(g.normal[k], Lower(CoerceTitle(title))))

\* C1: a title that contains, ignoring case, a string of global_filters is
\* rejected, whatever word_groups (the empty list too) and filter_words are.
C1_GlobalFilterOverrides ==
    (pc = "returned" /\ TitleHitsGlobal) => result = FALSE

\* C1 witness: a global filter hits a title that a group would accept.
C1_Witness ==
    /\ pc = "returned"
    /\ TitleHitsGlobal
    /\ ~TitleIsBlank
    /\ \E i \in 1..Len(word_groups) : GroupQualifies(word_groups[i])
    /\ result = FALSE

\* C2 as stated: with an empty word_groups list every title of length >= 1 is accepted.
C2_Original ==
    (pc = "returned" /\ word_groups = <<>> /\ title.kind = "str" /\ Len(title.text) >= 1)
        => result = TRUE

\* C2 amended: with an empty word_groups list every title that is not blank
\* (empty or whitespace only) and contains no string of global_filters is accepted.
C2_EmptyGroupsAcceptAll ==
    (pc = "returned" /\ word_groups = <<>> /\ ~TitleIsBlank /\ ~TitleHitsGlobal)
        => result = TRUE

\* C2 witness: empty word_groups, a filter word that matches the title, accepted.
C2_Witness ==
    /\ pc = "returned"
    /\ word_groups = <<>>
    /\ ~TitleIsBlank
    /\ TitleHitsFilterWord
    /\ result = TRUE

\* C3: with non-empty word_groups, a non-blank title that hits no global filter
\* and no filter word is accepted exactly when some group of the list qualifies;
\* a group that fails is skipped and the later groups still count.
C3_AcceptedIffSomeGroupQualifies ==
    (pc = "returned" /\ word_groups # <<>> /\ ~TitleIsBlank /\ ~TitleHitsGlobal
        /\ ~TitleHitsFilterWord)
        => (result = TRUE <=> \E i \in 1..Len(word_groups) : GroupQualifies(word_groups[i]))

\* C3 witness: the first group fails, a later group qualifies, the title is accepted.
C3_Witness ==
    /\ pc = "returned"
    /\ Len(word_groups) >= 2
    /\ ~GroupQualifies(word_groups[1])
    /\ word_groups[1].required # <<>>
    /\ result = TRUE
    /\ group_idx = 2

\* C4 as stated: word_groups made only of groups with neither required nor
\* normal tokens never makes the evaluator return true.
C4_EmptyGroupNeverMatches ==
    (pc = "returned" /\ word_groups # <<>>
        /\ \A i \in 1..Len(word_groups) :
              word_groups[i].required = <<>> /\ word_groups[i].normal = <<>>)
        => result = FALSE

----------------------------------------------------------------------------
(* Properties of parse_keyword_config, checked under SpecParse *)

\* the parser is about to run the loop body on blocks[block_idx]
AtBlock == pc = "loop" /\ block_idx <= Len(blocks)

IsPrefix(s, t) == Len(s) <= Len(t) /\ SubSeq(t, 1, Len(s)) = s

\* the first line left in the block, once blank and comment lines are gone,
\* is [name] in any letter case
FirstLineNames(b, name) ==
    BlockLines(b) # <<>> /\ Upper(BlockLines(b)[1]) = <<"[">> \o name \o <<"]">>

HasSectionHeader(b) == FirstLineNames(b, SecGlobalFilter) \/ FirstLineNames(b, SecWordGroups)

\* the lines of a block without its section header
ContentLines(b) == IF HasSectionHeader(b) THEN Tail(BlockLines(b)) ELSE BlockLines(b)

\* the section named by the last header among the first k blocks
RECURSIVE SectionAfterBlocks(_)
SectionAfterBlocks(k) ==
    IF k = 0 THEN "WORD_GROUPS"
    ELSE IF FirstLineNames(blocks[k], SecGlobalFilter) THEN "GLOBAL_FILTER"
    ELSE IF FirstLineNames(blocks[k], SecWordGroups) THEN "WORD_GROUPS"
    ELSE SectionAfterBlocks(k - 1)

\* a bracket line whose content is not a section keyword
IsAliasLine(l) ==
    IsBracketed(l) /\ Upper(Strip(Inner(l))) \notin {SecGlobalFilter, SecWordGroups}

BlockHasAlias(b) == ContentLines(b) # <<>> /\ IsAliasLine(ContentLines(b)[1])

BlockAlias(b) == Strip(Inner(ContentLines(b)[1]))

\* the lines of a block that are neither section header nor alias line
WordLines(b) == IF BlockHasAlias(b) THEN Tail(ContentLines(b)) ELSE ContentLines(b)

RequiredLines(b) == SelectSeq(WordLines(b), LAMBDA l : l[1] = "+")

NormalLines(b) == SelectSeq(WordLines(b), LAMBDA l : l[1] \notin {"+", "!", "@"})

\* the block holds only '!' lines, '@' lines, comments, blank lines or an alias line
InertBlock(b) ==
    \A k \in 1..Len(BlockLines(b)) :
        \/ BlockLines(b)[k][1] \in {"!", "@"}
        \/ k = 1 /\ IsAliasLine(BlockLines(b)[k])

\* C5: no parsed group has both an empty required list and an empty normal
\* list, and a block holding only '!' lines, '@' lines, comments or an alias
\* line adds no group.
C5_NoEmptyGroupEmitted ==
    /\ [](\A k \in 1..Len(processed_groups) :
             processed_groups[k].required # <<>> \/ processed_groups[k].normal # <<>>)
    /\ [][(AtBlock /\ InertBlock(blocks[block_idx]))
             => processed_groups' = processed_groups]_vars

\* C5 witness: in section WORD_GROUPS a block of count and filter lines only
\* has been read after a block that emitted a group, and added none.
C5_Witness ==
    /\ pc = "loop"
    /\ block_idx = 3
    /\ current_section = "WORD_GROUPS"
    /\ blocks[2] = BlkCountOnly
    /\ InertBlock(blocks[2])
    /\ Len(processed_groups) = 1
    /\ parsed_filter_words # <<>>

ScenarioText == Join(NL \o NL, <<BlkTesla, BlkSpam>>)

LiteralToken(w) == Token(w, FALSE, None, None)

\* the scenario's text parses to one group (required Tesla, normal Musk) and
\* the filter token spam, and the title with Musk matches
ScenarioParse ==
    (config_text = ScenarioText /\ pc \in {"parsed", "returned"}) =>
        /\ Len(processed_groups) = 1
        /\ processed_groups[1].required = <<LiteralToken(<<"T", "e", "s", "l", "a">>)>>
        /\ processed_groups[1].normal = <<LiteralToken(<<"M", "u", "s", "k">>)>>
        /\ parsed_filter_words = <<LiteralToken(<<"s", "p", "a", "m">>)>>
        /\ parsed_global_filters = <<>>
        /\ (pc = "returned" /\ title = StrTitle(TitleMuskPlan) => result = TRUE)
        /\ (pc = "returned" /\ title = StrTitle(TitleSpamAlert)
               /\ filter_words = parsed_filter_words => result = FALSE)

\* C6 as stated: ... and "Tesla spam alert" matches when the filter list is not supplied.
C6_Original ==
    /\ ScenarioParse
    /\ (config_text = ScenarioText /\ pc = "returned" /\ title = StrTitle(TitleSpamAlert)
           /\ filter_words = <<>>) => result = TRUE

\* C6 amended: '+Tesla' / 'Musk', blank line, '!spam' parses to exactly one
\* group (required Tesla, normal Musk) plus the filter token spam; "Tesla
\* unveils Musk's new plan" matches; "Tesla spam alert" does not match when the
\* parsed filter list is supplied as filter_words, and does not match either
\* when it is not supplied (no normal token of the group is in the title).
C6_Scenario ==
    /\ ScenarioParse
    /\ (config_text = ScenarioText /\ pc = "returned" /\ title = StrTitle(TitleSpamAlert)
           /\ filter_words = <<>>) => result = FALSE

\* C6 witness: the scenario's text, "Tesla spam alert", filter list not supplied.
C6_Witness ==
    /\ config_text = ScenarioText
    /\ pc = "returned"
    /\ title = StrTitle(TitleSpamAlert)
    /\ filter_words = <<>>
    /\ parsed_filter_words # <<>>
    /\ result = FALSE

\* C7: the active section is WORD_GROUPS before any header, is the one named
\* by the last block whose first line is a section header (any letter case), and
\* is not changed by a block without one; under GLOBAL_FILTER a block emits no
\* group and feeds the global-filter list, under WORD_GROUPS blocks emit groups.
C7_SectionPersists ==
    /\ [](pc \in {"loop", "parsed", "returned"}
            => current_section = SectionAfterBlocks(block_idx - 1))
    /\ [][AtBlock =>
            /\ (~HasSectionHeader(blocks[block_idx]) => current_section' = current_section)
            /\ (SectionAfterBlocks(block_idx) = "GLOBAL_FILTER" =>
                   /\ processed_groups' = processed_groups
                   /\ IsPrefix(parsed_global_filters, parsed_global_filters'))
            /\ (SectionAfterBlocks(block_idx) = "WORD_GROUPS" =>
                   /\ parsed_global_filters' = parsed_global_filters
                   /\ (RequiredLines(blocks[block_idx]) \o NormalLines(blocks[block_idx]) # <<>>
                          => Len(processed_groups') = Len(processed_groups) + 1))]_vars

\* C7 witness: a GLOBAL_FILTER header, then a block without header that fed the
\* global filters and emitted no group, then a WORD_GROUPS header whose block
\* emitted a group.
C7_Witness ==
    /\ pc = "parsed"
    /\ Len(blocks) = 3
    /\ FirstLineNames(blocks[1], SecGlobalFilter)
    /\ ~HasSectionHeader(blocks[2])
    /\ NormalLines(blocks[2]) # <<>>
    /\ FirstLineNames(blocks[3], SecWordGroups)
    /\ Len(processed_groups) = 1
    /\ Len(parsed_global_filters) >= 2
    /\ current_section = "WORD_GROUPS"

\* C8: while the active section is GLOBAL_FILTER a block appends to the
\* global-filter list exactly its lines that do not start with '!', '+' or '@',
\* in order and as written, and leaves the group list and the aggregate
\* filter-token list unchanged.
C8_GlobalFilterBlock ==
    [][(AtBlock /\ SectionAfterBlocks(block_idx) = "GLOBAL_FILTER") =>
          /\ parsed_global_filters' =
                parsed_global_filters
                    \o SelectSeq(ContentLines(blocks[block_idx]),
                                 LAMBDA l : l[1] \notin {"!", "+", "@"})
          /\ processed_groups' = processed_groups
          /\ parsed_filter_words' = parsed_filter_words]_vars

\* C8 witness: under GLOBAL_FILTER a block with a regex-looking line and a
\* block with a '+' line have been read: the first is kept as written, the
\* second dropped.
C8_Witness ==
    /\ pc = "parsed"
    /\ Len(blocks) = 3
    /\ blocks[2] = BlkRegex
    /\ blocks[3] = BlkLateHeader
    /\ current_section = "GLOBAL_FILTER"
    /\ <<"/", "a", "|", "b", "/">> \in Range(parsed_global_filters)
    /\ <<"+", "y">> \notin Range(parsed_global_filters)
    /\ processed_groups = <<>>
    /\ parsed_filter_words = <<>>

\* the tokens compiled from lines, each without its first n characters
Compiled(lines, n) ==
    [k \in 1..Len(lines) |-> _parse_word(SubSeq(lines[k], n + 1, Len(lines[k])))]

\* C9: a block leaves the group list alone or appends one group, built from
\* that block, after the groups of the earlier blocks; and matches_word_groups
\* returns true at the first group of the list that qualifies.
C9_GroupOrder ==
    /\ [][AtBlock =>
            \/ processed_groups' = processed_groups
            \/ /\ Len(processed_groups') = Len(processed_groups) + 1
               /\ SubSeq(processed_groups', 1, Len(processed_groups)) = processed_groups
               /\ processed_groups'[Len(processed_groups')].required
                     = Compiled(RequiredLines(blocks[block_idx]), 1)
               /\ processed_groups'[Len(processed_groups')].normal
                     = Compiled(NormalLines(blocks[block_idx]), 0)]_vars
    /\ [](pc = "returned" /\ word_groups # <<>> /\ result = TRUE =>
            /\ group_idx \in 1..Len(word_groups)
            /\ GroupQualifies(word_groups[group_idx])
            /\ \A j \in 1..(group_idx - 1) : ~GroupQualifies(word_groups[j]))

\* C9 witness: two blocks emitted two different groups, both qualify for the
\* title, and the first one returned.
C9_Witness ==
    /\ pc = "returned"
    /\ Len(blocks) = 2
    /\ Len(word_groups) = 2
    /\ word_groups = processed_groups
    /\ word_groups[1] # word_groups[2]
    /\ GroupQualifies(word_groups[1])
    /\ GroupQualifies(word_groups[2])
    /\ result = TRUE
    /\ group_idx = 1

DisplayParts(tokens) ==
    [k \in 1..Len(tokens) |->
        IF tokens[k].display_name # None THEN tokens[k].display_name ELSE tokens[k].word]

SlashJoin(parts) == Join(<<" ", "/", " ">>, parts)

\* the group a block has just appended
NewGroup == processed_groups'[Len(processed_groups')]

EmitsGroup == AtBlock /\ Len(processed_groups') = Len(processed_groups) + 1

\* C10 as stated: the display name is the alias when the block has one,
\* otherwise the slash-joined names of the required tokens followed by those
\* of the normal tokens.
C10_Original ==
    [][EmitsGroup =>
          NewGroup.display_name =
              IF BlockHasAlias(blocks[block_idx]) THEN BlockAlias(blocks[block_idx])
              ELSE SlashJoin(DisplayParts(NewGroup.required \o NewGroup.normal))]_vars

\* C10 amended: the display name is the alias when the block has a non-empty
\* one, otherwise the display names (raw text for a token without one) of the
\* normal tokens followed by those of the required tokens, joined by " / ".
C10_DisplayName ==
    [][EmitsGroup =>
          NewGroup.display_name =
              IF BlockHasAlias(blocks[block_idx]) /\ BlockAlias(blocks[block_idx]) # <<>>
              THEN BlockAlias(blocks[block_idx])
              ELSE SlashJoin(DisplayParts(NewGroup.normal \o NewGroup.required))]_vars

\* C10 witness: one group named by its alias, one by its tokens, normal first.
C10_Witness ==
    /\ pc = "parsed"
    /\ \E k \in 1..Len(processed_groups) :
          processed_groups[k].display_name = <<"H", "o", "t">>
    /\ \E k \in 1..Len(processed_groups) :
          /\ processed_groups[k].required # <<>>
          /\ processed_groups[k].normal # <<>>
          /\ processed_groups[k].display_name = <<"R", " ", "/", " ", "q">>

\* the '!' lines of a block
FilterLines(b) == SelectSeq(WordLines(b), LAMBDA l : l[1] = "!")

\* the loop body runs on a block of the word-group section that has lines
AtGroupBlock ==
    /\ AtBlock
    /\ BlockLines(blocks[block_idx]) # <<>>
    /\ SectionAfterBlocks(block_idx) = "WORD_GROUPS"

\* C11: the tokens compiled from the '!' lines of a block are appended to the
\* aggregate filter list, whether or not the block emits a group, and the
\* group the block emits carries them in a filter list of its own.
C11_FilterInGroupAndAggregate ==
    [][AtGroupBlock =>
          /\ parsed_filter_words' =
                parsed_filter_words \o Compiled(FilterLines(blocks[block_idx]), 1)
          /\ EmitsGroup /\ FilterLines(blocks[block_idx]) # <<>> =>
                /\ "filter" \in DOMAIN NewGroup
                /\ NewGroup.filter = Compiled(FilterLines(blocks[block_idx]), 1)]_vars

\* the index of the first '=>' of a word, 0 when it has none
FirstArrow(w) ==
    LET hits == {i \in 1..(Len(w) - 1) : w[i] = "=" /\ w[i + 1] = ">"}
    IN  IF hits = {} THEN 0 ELSE CHOOSE i \in hits : \A j \in hits : i <= j

\* the text of a word that is left once its display name is taken off
RemainingText(w) ==
    Strip(IF FirstArrow(w) = 0 THEN w ELSE SubSeq(w, 1, FirstArrow(w) - 1))

\* t is /pattern/ followed by lower-case flags, and closes at index i
WrappedAt(t, i) ==
    /\ i \in 3..Len(t)
    /\ t[1] = "/"
    /\ t[i] = "/"
    /\ \A k \in (i + 1)..Len(t) : t[k] \in Range(LowerChars)

\* t is wrapped in slashes and its inner pattern does not compile
IsBadRegex(t) ==
    \E i \in 3..Len(t) : WrappedAt(t, i) /\ ~RegexCompiles(SubSeq(t, 2, i - 1))

\* the tokens stand for the lines one to one, and a line whose text is a bad
\* regex stands as the literal token of its whole remaining text
LiteralFallback(tokens, lines, n) ==
    /\ Len(tokens) = Len(lines)
    /\ \A k \in 1..Len(lines) :
          LET t == RemainingText(SubSeq(lines[k], n + 1, Len(lines[k])))
          IN  IsBadRegex(t) =>
                 /\ tokens[k].kind = "dict"
                 /\ tokens[k].is_regex = FALSE
                 /\ tokens[k].pattern = None
                 /\ tokens[k].word = t

\* the last n elements of a sequence
LastN(s, n) == SubSeq(s, Len(s) - n + 1, Len(s))

\* C12: a line wrapped in /.../ whose inner pattern is no valid regular
\* expression raises nothing: it is compiled to a literal token (is_regex
\* false) whose text is the whole remaining text with its slashes, the lines
\* after it are compiled as well, and the parser goes on to the next block.
C12_InvalidRegexIsLiteral ==
    [][AtGroupBlock =>
          /\ pc' = "loop"
          /\ block_idx' = block_idx + 1
          /\ Len(parsed_filter_words') =
                Len(parsed_filter_words) + Len(FilterLines(blocks[block_idx]))
          /\ LiteralFallback(LastN(parsed_filter_words', Len(FilterLines(blocks[block_idx]))),
                             FilterLines(blocks[block_idx]), 1)
          /\ EmitsGroup =>
                /\ LiteralFallback(NewGroup.required, RequiredLines(blocks[block_idx]), 1)
                /\ LiteralFallback(NewGroup.normal, NormalLines(blocks[block_idx]), 0)]_vars

\* C12 witness: a block with three regexes that do not compile was parsed to
\* literal tokens that keep their slashes, and the block after it was parsed too.
C12_Witness ==
    /\ pc = "parsed"
    /\ blocks = <<BlkLateHeader, BlkTesla>>
    /\ Len(processed_groups) = 2
    /\ processed_groups[1].normal[1] = Token(<<"/", "(", "x", "/">>, FALSE, None, <<"N">>)
    /\ processed_groups[1].required[1] = Token(<<"/", "(", "/", "i">>, FALSE, None, None)
    /\ parsed_filter_words = <<Token(<<"/", "(", "(", "a", "/">>, FALSE, None, None)>>
    /\ processed_groups[2].normal # <<>>

\* the lines whose text, without the first n characters, is not a bad regex
CompilingLines(lines, n) ==
    LET Compiles(l) == ~IsBadRegex(RemainingText(SubSeq(l, n + 1, Len(l))))
    IN  SelectSeq(lines, Compiles)

\* C13 as stated: a token whose regular expression does not compile is
\* dropped, so the lists of the block are those of its other lines.
C13_Original ==
    [][AtGroupBlock =>
          LET required == Compiled(CompilingLines(RequiredLines(blocks[block_idx]), 1), 1)
              normal == Compiled(CompilingLines(NormalLines(blocks[block_idx]), 0), 0)
              filter == Compiled(CompilingLines(FilterLines(blocks[block_idx]), 1), 1)
          IN  /\ parsed_filter_words' = parsed_filter_words \o filter
              /\ IF required = <<>> /\ normal = <<>>
                 THEN processed_groups' = processed_groups
                 ELSE /\ EmitsGroup
                      /\ NewGroup.required = required
                      /\ NewGroup.normal = normal]_vars

\* C13 amended: a token whose regular expression does not compile is kept: it
\* stands in the required, normal or filter list its line belongs to, at the
\* place of its line, as a literal token with the whole text of the line
\* (slashes included), and it counts like any other token for the emission of
\* the group and for its group key.
C13_FailedRegexKept ==
    [][AtGroupBlock =>
          LET required == RequiredLines(blocks[block_idx])
              normal == NormalLines(blocks[block_idx])
              filter == FilterLines(blocks[block_idx])
              Kept(tokens, lines, n) ==
                  /\ Len(tokens) = Len(lines)
                  /\ \A k \in 1..Len(lines) :
                        IF IsBadRegex(RemainingText(SubSeq(lines[k], n + 1, Len(lines[k]))))
                        THEN /\ ~tokens[k].is_regex
                             /\ tokens[k].word =
                                   RemainingText(SubSeq(lines[k], n + 1, Len(lines[k])))
                        ELSE tokens[k] = Compiled(lines, n)[k]
          IN  /\ Len(parsed_filter_words') = Len(parsed_filter_words) + Len(filter)
              /\ Kept(LastN(parsed_filter_words', Len(filter)), filter, 1)
              /\ SubSeq(parsed_filter_words', 1, Len(parsed_filter_words)) = parsed_filter_words
              /\ IF required = <<>> /\ normal = <<>>
                 THEN processed_groups' = processed_groups
                 ELSE /\ EmitsGroup
                      /\ Kept(NewGroup.required, required, 1)
                      /\ Kept(NewGroup.normal, normal, 0)
                      /\ NewGroup.group_key =
                            Join(<<" ">>, WordsOf(IF normal # <<>> THEN NewGroup.normal
                                                  ELSE NewGroup.required))]_vars

\* C13 witness: the group of a block holds the tokens of its bad regexes
\* beside its other token, and the bad regex names the group.
C13_Witness ==
    /\ pc = "parsed"
    /\ blocks = <<BlkLateHeader>>
    /\ Len(processed_groups) = 1
    /\ Len(processed_groups[1].required) = 2
    /\ processed_groups[1].required[2].word = <<"y">>
    /\ ~processed_groups[1].required[1].is_regex
    /\ Len(processed_groups[1].normal) = 2
    /\ processed_groups[1].normal[1].word = <<"/", "(", "x", "/">>
    /\ IsPrefix(<<"/", "(", "x", "/", " ">>, processed_groups[1].group_key)
    /\ Len(parsed_filter_words) = 1

\* the '@' lines of a block
CountLines(b) == SelectSeq(WordLines(b), LAMBDA l : l[1] = "@")

\* the '@' lines of a block whose number is an integer above 0
ValidCountLines(b) ==
    LET Valid(l) == ParseInt(Tail(l)).ok /\ ParseInt(Tail(l)).val > 0
    IN  SelectSeq(CountLines(b), Valid)

\* the number of the last valid '@' line of a block, 0 when it has none
LastValidCount(b) ==
    LET valid == ValidCountLines(b)
    IN  IF valid = <<>> THEN 0 ELSE ParseInt(Tail(valid[Len(valid)])).val

\* C14: the max_count of an emitted group is the number of the last '@' line
\* of its block that is an integer above 0, and 0 when the block has no such
\* line; a malformed, zero or negative '@' line changes nothing, stops
\* nothing, and no '@' line becomes a required, normal or filter token.
C14_MaxCount ==
    [][AtGroupBlock =>
          /\ pc' = "loop"
          /\ block_idx' = block_idx + 1
          /\ Len(parsed_filter_words') =
                Len(parsed_filter_words) + Len(FilterLines(blocks[block_idx]))
          /\ \A k \in 1..Len(parsed_filter_words') : parsed_filter_words'[k].word # <<>> =>
                parsed_filter_words'[k].word[1] # "@"
          /\ EmitsGroup =>
                /\ NewGroup.max_count = LastValidCount(blocks[block_idx])
                /\ NewGroup.max_count >= 0
                /\ Len(NewGroup.required) = Len(RequiredLines(blocks[block_idx]))
                /\ Len(NewGroup.normal) = Len(NormalLines(blocks[block_idx]))
                /\ \A t \in Range(NewGroup.required) \cup Range(NewGroup.normal) :
                      t.word # <<>> => t.word[1] # "@"]_vars

\* C14 witness: a group kept the count 2 through a malformed and a zero '@'
\* line, a group took the second of two counts, and a group with a negative
\* count only has max_count 0.
C14_Witness ==
    /\ pc = "parsed"
    /\ blocks = <<BlkWordGroups, BlkRegex, BlkLateHeader>>
    /\ Len(processed_groups) = 3
    /\ processed_groups[1].max_count = 2
    /\ processed_groups[2].max_count = 3
    /\ processed_groups[3].max_count = 0
    /\ Len(CountLines(blocks[1])) = 3
    /\ Len(CountLines(blocks[3])) = 1

----------------------------------------------------------------------------
(* Properties of _parse_word, checked under SpecWord *)

\* the text after the first '=>' of a word, trimmed
TextAfterArrow(w) == Strip(SubSeq(w, FirstArrow(w) + 2, Len(w)))

\* C15: _parse_word splits at the first '=>' only.  The trimmed text before
\* it is what the token is compiled from: the text of a literal token, and
\* the slash-wrapped pattern (flags after it) of a regex token.  The trimmed
\* text after it is the display name, which is absent when that text is
\* empty and when the word has no '=>'.
C15_SplitAtFirstArrow ==
    pc = "returned" =>
        /\ token.kind = "dict"
        /\ token.display_name =
              IF FirstArrow(word_arg) = 0 \/ TextAfterArrow(word_arg) = <<>>
              THEN None ELSE TextAfterArrow(word_arg)
        /\ IF token.is_regex
           THEN /\ IsPrefix(<<"/">> \o token.word \o <<"/">>, RemainingText(word_arg))
                /\ token.pattern = token.word
           ELSE /\ token.word = RemainingText(word_arg)
                /\ token.pattern = None

\* C15 witness: a word with two '=>' was split at the first one, and the
\* second one is part of the display name.
C15_Witness ==
    /\ pc = "returned"
    /\ word_arg = <<"a", " ", "=", ">", "=", ">">>
    /\ token.word = <<"a">>
    /\ token.display_name = <<"=", ">">>

----------------------------------------------------------------------------
(* Properties of the topic catalog, checked under SpecTopic *)

\* the name equals a catalog key when letter case is set aside
IsKnownTopic(t) == \E k \in Range(TopicKeys) : Lower(k) = Lower(t)

\* the catalog key a known name stands for
KeyOf(t) == CHOOSE k \in Range(TopicKeys) : Lower(k) = Lower(t)

\* C16: a call with a name that equals no catalog key, letter case set
\* aside, returns success false with an error text that names every catalog
\* key, hands no group to collect_news and leaves the token cache alone; and
\* the cache never holds an entry for such a name, nor an empty token list.
C16_UnknownTopicIsError ==
    /\ [](topic_calls > 0 /\ ~IsKnownTopic(topic) =>
             /\ topic_result.success = FALSE
             /\ topic_result.error # None
             /\ Contains(topic, topic_result.error)
             /\ \A k \in Range(TopicKeys) : Contains(StrRepr(k), topic_result.error)
             /\ ~topic_result.collect_news_called
             /\ topic_result.word_groups = <<>>
             /\ topic_result.total_count = 0)
    /\ [](\A n \in DOMAIN parsed_keyword_groups :
             /\ IsKnownTopic(n)
             /\ parsed_keyword_groups[n] # <<>>)
    /\ [][~IsKnownTopic(topic') => UNCHANGED parsed_keyword_groups]_vars

\* C16 witness: after two topics were resolved, a call with an unknown name
\* returned the error and the cache kept its two entries.
C16_Witness ==
    /\ topic_calls = 3
    /\ topic = <<"A", "I", " ">>
    /\ topic_result.success = FALSE
    /\ Cardinality(DOMAIN parsed_keyword_groups) = 2

\* the tokens compiled from the catalog's keyword list of a key
CatalogTokens(k) == Compiled(CatalogGet(k), 0)

\* C17: every entry of the token cache belongs to a catalog key and is the
\* list of tokens compiled from that key's keywords; a call with a known name
\* leaves the entry of its key in the cache, no call changes or removes an
\* entry, and the group handed on holds the same tokens whether they were
\* compiled by this call or taken from the cache.
C17_CacheHoldsCompiledCatalog ==
    /\ [](\A n \in DOMAIN parsed_keyword_groups :
             /\ n \in Range(TopicKeys)
             /\ parsed_keyword_groups[n] = CatalogTokens(n))
    /\ [](topic_calls > 0 /\ IsKnownTopic(topic) =>
             /\ KeyOf(topic) \in DOMAIN parsed_keyword_groups
             /\ topic_result.collect_news_called
             /\ Len(topic_result.word_groups) = 1
             /\ topic_result.word_groups[1].required = <<>>
             /\ topic_result.word_groups[1].normal = CatalogTokens(KeyOf(topic))
             /\ topic_result.word_groups[1].group_key = KeyOf(topic))
    /\ [][/\ \A n \in DOMAIN parsed_keyword_groups :
                /\ n \in DOMAIN parsed_keyword_groups'
                /\ parsed_keyword_groups'[n] = parsed_keyword_groups[n]
          /\ DOMAIN parsed_keyword_groups' \subseteq
                DOMAIN parsed_keyword_groups
                   \cup (IF IsKnownTopic(topic') THEN {KeyOf(topic')} ELSE {})
          /\ topic_result'.parsed_now =
                (IsKnownTopic(topic') /\ KeyOf(topic') \notin DOMAIN parsed_keyword_groups)]_vars

\* C17 witness: the third call took the tokens of its topic, named in another
\* letter case, from a cache that holds two entries.
C17_Witness ==
    /\ topic_calls = 3
    /\ topic = <<"a", "i">>
    /\ topic_result.collect_news_called
    /\ ~topic_result.parsed_now
    /\ Cardinality(DOMAIN parsed_keyword_groups) = 2
    /\ Len(topic_result.word_groups[1].normal) = 11

----------------------------------------------------------------------------
(* Properties of matches_keywords, checked under SpecKeywords *)

\* the word groups that stand for a keyword list: none for the empty list,
\* else one group with the compiled keywords as its normal tokens
KeywordGroups(kws) ==
    IF kws = <<>> THEN <<>> ELSE << Group(<<>>, Compiled(kws, 0)) >>

\* C18: matches_keywords returns what matches_word_groups returns for the
\* same text and global filters and the word groups that stand for the
\* keyword list.
C18_KeywordsAsWordGroups ==
    pc = "returned" =>
        result = matches_word_groups(title, KeywordGroups(keywords), <<>>, global_filters)

----------------------------------------------------------------------------
(* The order of the checks of matches_word_groups, checked under SpecMatch *)

\* some group of word_groups qualifies for the title
SomeGroupQualifies == \E k \in 1..Len(word_groups) : GroupQualifies(word_groups[k])

\* C19: the checks run in the order blank title, global filters, empty
\* groups, filter words, groups.  A blank title and a title hit by a global
\* filter are rejected whatever the groups and filter words are; past those,
\* an empty word_groups list accepts the title even when a filter word
\* matches it, and a non-empty one rejects a title matched by a filter word
\* even when a group qualifies.
C19_OrderOfChecks ==
    pc = "returned" =>
        /\ (TitleIsBlank \/ TitleHitsGlobal => result = FALSE)
        /\ (~TitleIsBlank /\ ~TitleHitsGlobal /\ word_groups = <<>> => result = TRUE)
        /\ (~TitleIsBlank /\ ~TitleHitsGlobal /\ word_groups # <<>> /\ TitleHitsFilterWord
               => result = FALSE)

\* C19 witness: a title matched by a filter word is rejected although a group
\* qualifies for it.
C19_Witness ==
    /\ pc = "returned"
    /\ ~TitleIsBlank
    /\ ~TitleHitsGlobal
    /\ word_groups # <<>>
    /\ SomeGroupQualifies
    /\ TitleHitsFilterWord
    /\ result = FALSE

----------------------------------------------------------------------------
(* Properties of fetch_data, checked under SpecFetchFair *)

\* the request succeeded: no HTTP error, a body that parses as JSON, and a
\* status of success or cache
ReplyOk(r) ==
    /\ ~r.raised
    /\ r.parses
    /\ r.status \in {<<"s", "u", "c", "c", "e", "s", "s">>, <<"c", "a", "c", "h", "e">>}

\* the number of requests made so far
Requests == Len(attempts)

\* C20: fetch_data returns, after at most max_retries + 1 requests.  It
\* returns at the first request that succeeds, with the text of its body;
\* it returns None as the text exactly when max_retries + 1 requests were
\* made and all failed; and it has slept once after every failed request
\* but the last one, never after the request it returns on.
C20_RetryLoop ==
    /\ <>(pc = "returned")
    /\ [](Requests <= max_retries + 1)
    /\ [](\A i \in 1..(Requests - 1) : ~ReplyOk(attempts[i].reply))
    /\ [](pc = "returned" =>
             /\ Requests >= 1
             /\ \A i \in 1..(Requests - 1) : attempts[i].slept
             /\ ~attempts[Requests].slept
             /\ sleeps = Requests - 1
             /\ response[2] = IdValue(id_info)
             /\ IF ReplyOk(attempts[Requests].reply)
                THEN response[1] = attempts[Requests].reply.text /\ response[1] # None
                ELSE response[1] = None /\ Requests = max_retries + 1)
    /\ [][pc = "returned" => pc' = "returned" /\ attempts' = attempts /\ sleeps' = sleeps]_vars

\* C20 witness: with max_retries 2 the third request succeeded after two
\* failures and two sleeps, and its body was returned.
C20_Witness ==
    /\ pc = "returned"
    /\ max_retries = 2
    /\ Requests = 3
    /\ sleeps = 2
    /\ attempts[1].reply.raised
    /\ ~attempts[2].reply.raised
    /\ response[1] = attempts[3].reply.text
    /\ response[1] # None
    /\ response[2] = <<"b", "i", "l", "i", "b", "i", "l", "i", "-", "h", "o", "t", "-", "s", "e", "a", "r", "c", "h">>

----------------------------------------------------------------------------
(* Properties of crawl_websites and fetch_all *)

\* crawl_websites has returned (line 759)
CrawlReturned == pc \in {"crawl", "returned"} /\ crawl_idx > Len(platforms)

\* the ids requested, after alias resolution
RequestedIds == {ActualId(platforms[i].id) : i \in 1..Len(platforms)}

\* C21: after crawl_websites returns, every requested platform id (after alias
\* resolution) is in exactly one of the keys of results and failed_ids: never
\* in both, never in neither
C21_ResultsOrFailed ==
    CrawlReturned =>
        \A id \in RequestedIds :
            DictHas(raw_results, id) # (id \in Range(failed_ids))

\* the sum of the count fields of the first k platform entries
RECURSIVE SumCounts(_, _)
SumCounts(entries, k) ==
    IF k = 0 THEN 0 ELSE SumCounts(entries, k - 1) + entries[k].value.count

\* C22: in the result of fetch_all, total_count is the sum of the counts of
\* the platform entries, each count is the length of the entry's items, the
\* items of an entry are in non-decreasing rank order, and with max_items > 0
\* no entry has more than max_items items
C22_CountsSortedLimited ==
    pc = "returned" =>
        /\ collection.total_count = SumCounts(collection.platforms, Len(collection.platforms))
        /\ \A e \in Range(collection.platforms) :
              /\ e.value.count = Len(e.value.items)
              /\ \A i \in 1..Len(e.value.items), j \in 1..Len(e.value.items) :
                    i < j => e.value.items[i].rank <= e.value.items[j].rank
              /\ fetch_args.max_items > 0 => Len(e.value.items) <= fetch_args.max_items

\* two platforms in the result, one of them with more than max_items titles
\* cut down to max_items items of different ranks
C22_Witness ==
    /\ pc = "returned"
    /\ Len(collection.platforms) = 2
    /\ fetch_args.max_items = 2
    /\ \E e \in Range(collection.platforms) :
          /\ e.value.count = 2
          /\ Len(DictGet(raw_results, e.key)) > 2
          /\ e.value.items[1].rank < e.value.items[2].rank
    /\ collection.total_count > 2

\* a global-filter string of the call is, without regard to case, in the title
HitsGlobalFilter(t) ==
    \E g \in 1..Len(fetch_args.global_filters) :
        Contains(Lower(fetch_args.global_filters[g]), Lower(t))

\* C23: with global_filters passed to fetch_all, no item whose title contains
\* (case-insensitively) a global-filter string is in the result, in every
\* filtering mode: word_groups given, keywords given, or neither
C23_GlobalFiltersInEveryMode ==
    pc = "returned" =>
        \A e \in Range(collection.platforms) :
            \A i \in 1..Len(e.value.items) : ~HitsGlobalFilter(e.value.items[i].title)

====
